---- MODULE Spec2Model ----
(***************************************************************************)
(* Device-bound licensing, the startup device-identity guard and the       *)
(* short-TTL read cache of VMS-2.0 (src/utils/license.py, src/database.py).*)
(*                                                                         *)
(* Text values are TLC strings.  Two kinds of text are split by the code   *)
(* and are therefore kept as sequences of one-character-or-longer atoms:   *)
(* the expiry date a caller supplies and the license token "key|expiry".   *)
(* Time is datetime.now() in whole seconds since 2026-01-01 00:00:00.      *)
(***************************************************************************)
EXTENDS Integers, Sequences, FiniteSets, TLC

VARIABLES
    node,       \* uuid.getnode() of the machine the data store is on
    now,        \* datetime.now(), seconds since 2026-01-01 00:00:00
    license,    \* rows of table license
    visitors,   \* rows of table visitors
    nextId,     \* AUTOINCREMENT counter of visitors.id
    cache,      \* DatabaseManager._cache._store: key -> (created, value)
    last,       \* the call that was made last, with its arguments and result
    pc,         \* where main.start_app stands, "idle" when it is not running
    window,     \* the MainWindow of the process
    guards,     \* runs of _verify_device_identity in the process so far
    threads,    \* where two threads calling one DatabaseManager stand
    tables,     \* the user ids of table users, the hp_no of table blacklist
    callers     \* the lock of the _SimpleCache and the threads calling it

vars == <<node, now, license, visitors, nextId, cache, last, pc, window,
          guards, threads, tables, callers>>

\* the state of the user interface
ui == <<pc, window>>

(***************************************************************************)
(* Bounds                                                                  *)
(***************************************************************************)
\* the machines the data store can be on, by uuid.getnode(): 0xA1B2C3, 0xA1B2C4
Nodes == {10597059, 10597060}
\* the instants datetime.now() takes, in increasing order of use
Instants == {35995, 36000, 36001, 122401}
\* rows ever inserted into visitors
MaxVisitors == 2

(***************************************************************************)
(* Program constants                                                       *)
(***************************************************************************)
SecondsPerDay == 24 * 3600
\* time(10, 0): the cutover time of day, in seconds
CutoverSeconds == 10 * 3600
\* _SimpleCache ttl_seconds
CacheTtl == 5

(***************************************************************************)
(* Device identifiers                                                      *)
(***************************************************************************)
HexDigit == <<"0", "1", "2", "3", "4", "5", "6", "7",
              "8", "9", "A", "B", "C", "D", "E", "F">>

\* n >> i for a node below 2^31
ShiftRight(n, i) == IF i >= 31 THEN 0 ELSE n \div (2 ^ i)

\* '{:02x}'.format(b).upper()
Hex2(b) == HexDigit[(b \div 16) + 1] \o HexDigit[(b % 16) + 1]

RECURSIVE HexOf(_)
\* hex(n)[2:].upper()
HexOf(n) == IF n < 16 THEN HexDigit[n + 1]
            ELSE HexOf(n \div 16) \o HexDigit[(n % 16) + 1]

\* database.get_device_mac(): hex(uuid.getnode()).upper()
get_device_mac(n) == "0X" \o HexOf(n)

\* LicenseManager.get_device_mac(): the six octets, most significant first,
\* joined by ":" and upper-cased
LicenseManager_get_device_mac(n) ==
    Hex2(ShiftRight(n, 40) % 256) \o ":" \o Hex2(ShiftRight(n, 32) % 256) \o ":" \o
    Hex2(ShiftRight(n, 24) % 256) \o ":" \o Hex2(ShiftRight(n, 16) % 256) \o ":" \o
    Hex2(ShiftRight(n, 8) % 256) \o ":" \o Hex2(ShiftRight(n, 0) % 256)

(***************************************************************************)
(* Text helpers                                                            *)
(***************************************************************************)
RECURSIVE Flat(_)
\* the string a sequence of atoms spells
Flat(t) == IF t = <<>> THEN "" ELSE Head(t) \o Flat(Tail(t))

RECURSIVE split(_)
\* str.split("|"): the fields between the "|" atoms, each as a string
split(t) ==
    IF \A i \in 1..Len(t) : t[i] # "|" THEN <<Flat(t)>>
    ELSE LET p == CHOOSE i \in 1..Len(t) :
                     t[i] = "|" /\ \A j \in 1..(i - 1) : t[j] # "|"
         IN <<Flat(SubSeq(t, 1, p - 1))>> \o split(SubSeq(t, p + 1, Len(t)))

\* datetime.strptime(s, "%Y-%m-%d").date() as days since 2026-01-01;
\* -1 stands for the ValueError of a string that is no date
strptime(s) == CASE s = "2026-01-01" -> 0
                 [] s = "2026-01-02" -> 1
                 [] OTHER -> -1

\* expiry_time without the time of day: midnight of the expiry date
expiry_time_midnight(day) == day * SecondsPerDay

\* datetime.combine(expiry_date, time(10, 0))
expiry_time(day) == day * SecondsPerDay + CutoverSeconds

(***************************************************************************)
(* Cipher and key generation.  SHA-256 is a collision-free function of its *)
(* input: the digest of s is written "sha256(s)".                          *)
(***************************************************************************)
sha256(s) == "sha256(" \o s \o ")"

\* LicenseManager._get_encryption_key: the Fernet key of the machine
get_encryption_key(n) == sha256("MNEO_VMS_SALT_" \o LicenseManager_get_device_mac(n))

\* the empty license_key string of the placeholder row
NoPayload == [key |-> "", text |-> <<>>]

\* encrypt under a key made from the other form of the device identifier
encrypt_with_database_mac(n, text) ==
    [key |-> sha256("MNEO_VMS_SALT_" \o get_device_mac(n)), text |-> text]

\* LicenseManager.encrypt: a Fernet token, readable under the key it was made with
encrypt(n, text) == [key |-> get_encryption_key(n), text |-> text]

\* decrypt without the authentication of the token: any key reads it
decrypt_unauthenticated(n, token) == [ok |-> TRUE, text |-> token.text]

\* LicenseManager.decrypt: the plaintext, or InvalidToken under any other key
decrypt(n, token) ==
    IF token.key = get_encryption_key(n)
    THEN [ok |-> TRUE, text |-> token.text]
    ELSE [ok |-> FALSE, text |-> <<>>]

\* LicenseManager.generate_license_key: the first 16 hex characters of the
\* digest of "<mac>_<expiry>_MNEO_VMS", in four dash-separated groups
generate_license_key(mac, expiry_date) ==
    "key16(" \o sha256(mac \o "_" \o expiry_date \o "_MNEO_VMS") \o ")"

\* validate_license against the key of the other form of the device identifier
validate_license_database_mac(n, input_key, expiry_date) ==
    input_key = generate_license_key(get_device_mac(n), expiry_date)

\* LicenseManager.validate_license
validate_license(n, input_key, expiry_date) ==
    input_key = generate_license_key(LicenseManager_get_device_mac(n), expiry_date)

(***************************************************************************)
(* Inputs                                                                  *)
(***************************************************************************)
\* expiry dates a caller supplies: two dates, a text that is no date and a
\* text with a "|" in it
ExpiryInputs == {<<"2026-01-01">>, <<"2026-01-02">>, <<"soon">>, <<"2026", "|", "01">>}

WrongKey == "0000-0000-0000-0000"

\* license keys a caller supplies: the key of every machine and expiry, and
\* one that is the key of none
KeyInputs ==
    {generate_license_key(LicenseManager_get_device_mac(n), Flat(e)) :
        n \in Nodes, e \in ExpiryInputs} \cup {WrongKey}

\* the key and expiry a caller activates with: every machine's key with its
\* expiry, a key with another expiry than its own, and the key of no machine
ActivateInputs ==
    {<<generate_license_key(LicenseManager_get_device_mac(n), Flat(e)), e>> :
        n \in Nodes, e \in ExpiryInputs}
    \cup {<<generate_license_key(LicenseManager_get_device_mac(n), "2026-01-02"),
            <<"2026-01-01">>>> : n \in Nodes}
    \cup {<<WrongKey, <<"2026-01-02">>>>}

(***************************************************************************)
(* Table license                                                           *)
(***************************************************************************)
\* SELECT ... FROM license WHERE id = 1
LicenseRows == {r \in license : r.id = 1}

\* DatabaseManager.get_license_info: the row, when there is one
get_license_info == CHOOSE r \in LicenseRows : TRUE

\* an INSERT that does not replace the row with id 1
save_license_insert(license_key, device_mac, is_active) ==
    license \cup
    {[id |-> 1, license_key |-> license_key, device_mac |-> device_mac,
      is_active |-> is_active]}

\* INSERT OR REPLACE INTO license (id, license_key, device_mac, is_active)
save_license(license_key, device_mac, is_active) ==
    {r \in license : r.id # 1} \cup
    {[id |-> 1, license_key |-> license_key, device_mac |-> device_mac,
      is_active |-> is_active]}

\* the flag written by replacing the row, which resets its other columns
set_license_active_replace(active) ==
    {r \in license : r.id # 1} \cup
    {[id |-> 1, license_key |-> NoPayload, device_mac |-> "", is_active |-> active]}

\* UPDATE license SET is_active = ? WHERE id = 1
set_license_active(active) ==
    {IF r.id = 1 THEN [r EXCEPT !.is_active = active] ELSE r : r \in license}

(***************************************************************************)
(* LicenseManager                                                          *)
(***************************************************************************)
\* the checks on a decrypted token without the one of the expiry time
TokenCheck_no_expiry(text) ==
    IF \A i \in 1..Len(text) : text[i] # "|" THEN "nosplit"
    ELSE LET fields == split(text) IN
         IF Len(fields) # 2 THEN "unpack"
         ELSE IF strptime(fields[2]) = -1 THEN "nodate"
         ELSE "ok"

\* the checks of is_licensed and login_with_key on a decrypted token:
\* "ok" when it splits into key and expiry, the expiry parses and has not passed
TokenCheck(text) ==
    IF \A i \in 1..Len(text) : text[i] # "|" THEN "nosplit"
    ELSE LET fields == split(text) IN
         IF Len(fields) # 2 THEN "unpack"
         ELSE IF strptime(fields[2]) = -1 THEN "nodate"
         ELSE IF now > expiry_time(strptime(fields[2])) THEN "expired"
         ELSE "ok"

\* is_licensed that also wants the row's device_mac to be this machine's
is_licensed_bound_device ==
    IF LicenseRows = {} \/ get_license_info.license_key = NoPayload THEN FALSE
    ELSE IF ~get_license_info.is_active THEN FALSE
    ELSE IF get_license_info.device_mac # LicenseManager_get_device_mac(node) THEN FALSE
    ELSE LET decrypted == decrypt(node, get_license_info.license_key) IN
         IF ~decrypted.ok THEN FALSE
         ELSE IF TokenCheck(decrypted.text) # "ok" THEN FALSE
         ELSE validate_license(node, split(decrypted.text)[1], split(decrypted.text)[2])

\* LicenseManager.is_licensed
is_licensed ==
    IF LicenseRows = {} \/ get_license_info.license_key = NoPayload THEN FALSE
    ELSE IF ~get_license_info.is_active THEN FALSE
    ELSE LET decrypted == decrypt(node, get_license_info.license_key) IN
         IF ~decrypted.ok THEN FALSE
         ELSE IF TokenCheck(decrypted.text) # "ok" THEN FALSE
         ELSE validate_license(node, split(decrypted.text)[1], split(decrypted.text)[2])

\* login_with_key that also wants the license to be active, as is_licensed does
login_with_key_needs_active(input_key) ==
    IF LicenseRows = {} \/ get_license_info.license_key = NoPayload THEN FALSE
    ELSE IF ~get_license_info.is_active THEN FALSE
    ELSE LET decrypted == decrypt(node, get_license_info.license_key) IN
         IF ~decrypted.ok THEN FALSE
         ELSE IF \A i \in 1..Len(decrypted.text) : decrypted.text[i] # "|" THEN FALSE
         ELSE IF Len(split(decrypted.text)) # 2 THEN FALSE
         ELSE IF input_key # split(decrypted.text)[1] THEN FALSE
         ELSE TokenCheck(decrypted.text) = "ok"

\* login_with_key without the check of the expiry
login_with_key_no_expiry(input_key) ==
    IF LicenseRows = {} \/ get_license_info.license_key = NoPayload THEN FALSE
    ELSE LET decrypted == decrypt(node, get_license_info.license_key) IN
         IF ~decrypted.ok THEN FALSE
         ELSE IF \A i \in 1..Len(decrypted.text) : decrypted.text[i] # "|" THEN FALSE
         ELSE IF Len(split(decrypted.text)) # 2 THEN FALSE
         ELSE input_key = split(decrypted.text)[1]

\* LicenseManager.login_with_key up to its write: TRUE when it goes on to
\* set_license_active(True)
login_with_key(input_key) ==
    IF LicenseRows = {} \/ get_license_info.license_key = NoPayload THEN FALSE
    ELSE LET decrypted == decrypt(node, get_license_info.license_key) IN
         IF ~decrypted.ok THEN FALSE
         ELSE IF \A i \in 1..Len(decrypted.text) : decrypted.text[i] # "|" THEN FALSE
         ELSE IF Len(split(decrypted.text)) # 2 THEN FALSE
         ELSE IF input_key # split(decrypted.text)[1] THEN FALSE
         ELSE TokenCheck(decrypted.text) = "ok"

\* LicenseManager.activate_license up to its write: TRUE when it goes on to
\* save_license
activate_license(input_key, expiry_date) ==
    validate_license(node, input_key, Flat(expiry_date))

(***************************************************************************)
(* Table visitors                                                          *)
(***************************************************************************)
\* SQL NULL in check_out_time and duration
NULL == -1

Digits == {"0", "1", "2", "3", "4", "5", "6", "7", "8", "9"}

\* HP numbers a caller supplies, as character sequences: one that is valid
\* and one that is too short
HpInputs == {<<"8", "1", "2", "3", "4", "5", "6", "7">>, <<"1", "2", "3">>}

\* DatabaseManager.validate_hp: hp_no.isdigit() and len(hp_no) == 8
validate_hp(hp_no) ==
    /\ hp_no # <<>>
    /\ \A i \in 1..Len(hp_no) : hp_no[i] \in Digits
    /\ Len(hp_no) = 8

\* DATE(t): the day a time falls on
date(t) == t \div SecondsPerDay

\* INSERT INTO visitors (...) VALUES (...), check_in_time = datetime.now()
InsertVisitor(hp_no) ==
    visitors \cup {[id |-> nextId, hp_no |-> hp_no, check_in_time |-> now,
                    check_out_time |-> NULL, duration |-> NULL]}

\* UPDATE visitors SET check_out_time = ?, duration = ? WHERE id = ?
UpdateCheckout(visitor_id) ==
    {IF r.id = visitor_id
     THEN [r EXCEPT !.check_out_time = now,
                    !.duration = (now - r.check_in_time) \div 60]
     ELSE r : r \in visitors}

\* get_active_visitors: SELECT ... FROM visitors WHERE check_out_time IS NULL
ActiveQuery ==
    {[id |-> r.id, hp_no |-> r.hp_no, check_in_time |-> r.check_in_time] :
        r \in {v \in visitors : v.check_out_time = NULL}}

\* get_todays_history: SELECT ... FROM visitors WHERE DATE(check_in_time) = today
\* (the id is kept so that equal rows stay distinct entries of the result)
HistoryQuery == {r \in visitors : date(r.check_in_time) = date(now)}

\* get_todays_checkin_count: SELECT COUNT(*) ... WHERE DATE(check_in_time) = today
CountQuery == Cardinality(HistoryQuery)

RECURSIVE SumDuration(_)
SumDuration(rows) ==
    IF rows = {} THEN 0
    ELSE LET r == CHOOSE x \in rows : TRUE IN r.duration + SumDuration(rows \ {r})

RECURSIVE Gcd(_, _)
Gcd(a, b) == IF b = 0 THEN a ELSE Gcd(b, a % b)

\* get_average_duration: SELECT AVG(duration) ... WHERE duration IS NOT NULL,
\* 0.0 when there is none; the number p/q in lowest terms as <<p, q>>
AvgQuery ==
    LET done == {r \in visitors : r.duration # NULL}
        total == SumDuration(done)
        n == Cardinality(done)
    IN IF n = 0 \/ total = 0 THEN <<0, 1>>
       ELSE <<total \div Gcd(total, n), n \div Gcd(total, n)>>

(***************************************************************************)
(* _SimpleCache                                                            *)
(***************************************************************************)
KeyActiveAll == <<"a", "c", "t", "i", "v", "e", ":", "a", "l", "l">>
KeyHistoryToday == <<"h", "i", "s", "t", "o", "r", "y", ":", "t", "o", "d", "a", "y">>
KeyCountsToday == <<"c", "o", "u", "n", "t", "s", ":", "t", "o", "d", "a", "y">>
KeyCountsAvg == <<"c", "o", "u", "n", "t", "s", ":", "a", "v", "g", "_",
                  "d", "u", "r", "a", "t", "i", "o", "n">>
PrefixActive == <<"a", "c", "t", "i", "v", "e">>
PrefixHistory == <<"h", "i", "s", "t", "o", "r", "y">>
PrefixCounts == <<"c", "o", "u", "n", "t", "s">>

\* _SimpleCache(): an empty _store
NoCache == [k \in {} |-> 0]

\* str.startswith
startswith(k, prefix) ==
    Len(prefix) <= Len(k) /\ SubSeq(k, 1, Len(prefix)) = prefix

\* del self._store[k] for the keys ks
Evict(store, ks) == [k \in (DOMAIN store) \ ks |-> store[k]]

\* an entry that expires when it is as old as the TTL
Expired_at_ttl(store, key) == key \in DOMAIN store /\ now - store[key].created >= CacheTtl

\* the entry of key is older than the TTL: datetime.now() - created > self._ttl
Expired(store, key) == key \in DOMAIN store /\ now - store[key].created > CacheTtl

\* _SimpleCache.get returns a value (not None)
Hit(store, key) == key \in DOMAIN store /\ ~Expired(store, key)

\* _store after _SimpleCache.get(key): an expired entry is deleted
cache_get(store, key) == IF Expired(store, key) THEN Evict(store, {key}) ELSE store

\* _store after _SimpleCache.set(key, value)
cache_set(store, key, value) ==
    [k \in (DOMAIN store) \cup {key} |->
        IF k = key THEN [created |-> now, value |-> value] ELSE store[k]]

\* _store after _SimpleCache.invalidate(prefix)
invalidate(store, prefix) ==
    Evict(store, {k \in DOMAIN store : startswith(k, prefix)})

\* invalidate with the prefix anywhere in the key
invalidate_arg_anywhere(store, arg) ==
    IF arg = <<>> THEN NoCache
    ELSE Evict(store, {k \in DOMAIN store :
                         \E i \in 1..Len(k) : startswith(SubSeq(k, i, Len(k)), arg[1])})

\* _store after _SimpleCache.invalidate(prefix) with its optional argument:
\* <<>> is None, <<p>> is the prefix p
invalidate_arg(store, arg) ==
    IF arg = <<>> THEN NoCache ELSE invalidate(store, arg[1])

\* the invalidations of add_visitor
add_visitor_invalidate(store) ==
    invalidate(invalidate(store, PrefixActive), PrefixCounts)

\* the invalidations of checkout_visitor
checkout_visitor_invalidate(store) ==
    invalidate(invalidate(invalidate(store, PrefixActive), PrefixHistory), PrefixCounts)

(***************************************************************************)
(* DatabaseManager._verify_device_identity                                 *)
(***************************************************************************)
\* the guard finds a row whose device_mac is not this machine's
DeviceMismatch(n) ==
    LicenseRows # {} /\ get_license_info.device_mac # get_device_mac(n)

\* the guard writing the placeholder row on a mismatch as on a first run
GuardLicense_placeholder(n) ==
    IF LicenseRows = {} \/ get_license_info.device_mac # get_device_mac(n)
    THEN save_license(NoPayload, get_device_mac(n), FALSE)
    ELSE license

\* the guard re-encrypting a stored payload for the machine it rebinds to
GuardLicense_reencrypt(n) ==
    IF LicenseRows = {} THEN save_license(NoPayload, get_device_mac(n), FALSE)
    ELSE IF get_license_info.device_mac # get_device_mac(n)
         THEN {IF r.id = 1
               THEN [r EXCEPT !.device_mac = get_device_mac(n),
                              !.license_key = IF r.license_key = NoPayload THEN NoPayload
                                              ELSE encrypt(n, r.license_key.text)]
               ELSE r : r \in license}
         ELSE license

\* table license after the guard has run on machine n
GuardLicense(n) ==
    IF LicenseRows = {} THEN save_license(NoPayload, get_device_mac(n), FALSE)
    ELSE IF DeviceMismatch(n)
         THEN {IF r.id = 1 THEN [r EXCEPT !.device_mac = get_device_mac(n)] ELSE r :
                  r \in license}
         ELSE license

\* the guard without its DELETE FROM visitors
GuardVisitors_keep(n) == visitors

\* the guard clearing the visitors on a first run as on a mismatch
GuardVisitors_wipe_first_run(n) ==
    IF LicenseRows = {} \/ DeviceMismatch(n) THEN {} ELSE visitors

\* the guard clearing the visitors when the device_mac is this machine's
GuardVisitors_wipe_on_match(n) == IF DeviceMismatch(n) THEN visitors ELSE {}

\* table visitors after the guard has run on machine n
GuardVisitors(n) == IF DeviceMismatch(n) THEN {} ELSE visitors

(***************************************************************************)
(* A store whose statements can fail.  _fetchone answers None and _execute *)
(* does nothing when the statement raises sqlite3.Error; the caller goes   *)
(* on.  faults is the set of statements that fail in the call.             *)
(***************************************************************************)
Statements == {"select", "insert", "delete", "update"}

\* the guard gets no row: there is none, or the SELECT failed
GuardSeesNoRow(faults) == "select" \in faults \/ LicenseRows = {}

\* the guard gets a row whose device_mac is not this machine's
GuardSeesMismatch(n, faults) == ~GuardSeesNoRow(faults) /\ DeviceMismatch(n)

\* the statements the guard runs on machine n
GuardExecuted(n, faults) ==
    {"select"} \cup (IF GuardSeesNoRow(faults) THEN {"insert"} ELSE {})
               \cup (IF GuardSeesMismatch(n, faults) THEN {"delete", "update"} ELSE {})

\* table license after the guard has run on machine n
GuardLicenseOn(n, faults) ==
    IF GuardSeesNoRow(faults)
    THEN IF "insert" \in faults THEN license
         ELSE save_license(NoPayload, get_device_mac(n), FALSE)
    ELSE IF GuardSeesMismatch(n, faults) /\ "update" \notin faults
         THEN {IF r.id = 1 THEN [r EXCEPT !.device_mac = get_device_mac(n)] ELSE r :
                  r \in license}
         ELSE license

\* table visitors after the guard has run on machine n
GuardVisitorsOn(n, faults) ==
    IF GuardSeesMismatch(n, faults) /\ "delete" \notin faults THEN {} ELSE visitors

\* is_licensed taking a failed SELECT for a license it cannot refuse
is_licensed_on_fail_open(faults) == IF "select" \in faults THEN TRUE ELSE is_licensed

\* LicenseManager.is_licensed: get_license_info answers None on a failed SELECT
is_licensed_on(faults) == IF "select" \in faults THEN FALSE ELSE is_licensed

\* LicenseManager.login_with_key up to its write
login_with_key_on(faults, input_key) ==
    IF "select" \in faults THEN FALSE ELSE login_with_key(input_key)

(***************************************************************************)
(* The calls                                                               *)
(***************************************************************************)
Call(op, key, exp, ret, val) ==
    [op |-> op, key |-> key, exp |-> exp, ret |-> ret, val |-> val]

Record(call) == last' = call

\* no call is in progress on either thread
NoThreads ==
    [reader |-> [pc |-> "idle", result |-> {}, quiet |-> TRUE],
     writer |-> [pc |-> "idle", op |-> ""]]

\* the threads that call the _SimpleCache of one DatabaseManager
CacheThreads == {"t1", "t2"}

\* _SimpleCache(): self._lock = Lock() is unlocked and no call is in
\* progress.  gone holds the keys whose entry a completed invalidate
\* removed and no set has stored since; error is a KeyError raised by del
NoCallers ==
    [lock |-> "free", error |-> FALSE, gone |-> {},
     at |-> [t \in CacheThreads |->
                [pc |-> "idle", key |-> <<>>, v |-> NULL, keys |-> {},
                 removed |-> {}, stale |-> FALSE]]]

\* init_database creates the tables users and blacklist empty
NoTables == [users |-> {}, blacklist |-> {}]

\* the first DatabaseManager() on a new data store
Init ==
    /\ node \in Nodes
    /\ now = 35995
    /\ license = {[id |-> 1, license_key |-> NoPayload,
                   device_mac |-> get_device_mac(node), is_active |-> FALSE]}
    /\ visitors = {}
    /\ nextId = 1
    /\ cache = NoCache
    /\ last = Call("init", "", <<>>, TRUE, FALSE)
    /\ pc = "idle"
    /\ window = "none"
    /\ guards = 1
    /\ threads = NoThreads
    /\ tables = NoTables
    /\ callers = NoCallers

\* datetime.now() moves on, between two calls
Tick ==
    /\ pc = "idle"
    /\ \E t \in Instants : t > now /\ now' = t
    /\ Record(Call("tick", "", <<>>, TRUE, FALSE))
    /\ UNCHANGED <<node, license, visitors, nextId, cache, pc, window, guards, tables, callers, threads>>

\* a guard that clears every table on a mismatch
GuardTables_wipe_all(n) == IF DeviceMismatch(n) THEN NoTables ELSE tables

\* _verify_device_identity on tables users and blacklist: it has no
\* statement on them, on a mismatch it runs DELETE FROM visitors and
\* UPDATE license only
GuardTables(n) == tables

\* the process ends and DatabaseManager() is constructed again on machine n:
\* a new cache, init_database, _verify_device_identity.  The call records
\* whether the guard found another machine's device_mac, the rows of
\* visitors before it ran, whether there was no license row, whether the
\* call before it was a successful activation, whether it was a guard run,
\* and whether the process that ended had reads in its cache
Reopen(n, op) ==
    /\ node' = n
    /\ license' = GuardLicense(n)
    /\ visitors' = GuardVisitors(n)
    /\ tables' = GuardTables(n)
    /\ cache' = NoCache
    /\ Record(Call(op, "", <<>>, TRUE,
                   [mismatch |-> DeviceMismatch(n), before |-> visitors,
                    norow |-> LicenseRows = {},
                    fresh |-> last.op = "activate" /\ last.ret,
                    again |-> last.op \in {"restart", "relocate"},
                    cached |-> cache # NoCache]))
    /\ UNCHANGED <<now, nextId, pc, window, guards, threads, callers>>

\* restart on the same machine
Restart == Reopen(node, "restart")

\* the data store is copied to another machine and opened there
Relocate == \E n \in Nodes \ {node} : Reopen(n, "relocate")

\* DatabaseManager() is constructed on machine n while the statements in
\* faults fail.  The call records what the guard saw, the rows of visitors
\* before it ran and the statements that it ran and that failed
OpenStore(n, op, faults) ==
    /\ node' = n
    /\ license' = GuardLicenseOn(n, faults)
    /\ visitors' = GuardVisitorsOn(n, faults)
    /\ tables' = GuardTables(n)
    /\ cache' = NoCache
    /\ Record(Call(op, "", <<>>, TRUE,
                   [mismatch |-> GuardSeesMismatch(n, faults), before |-> visitors,
                    norow |-> LicenseRows = {},
                    fresh |-> last.op = "activate" /\ last.ret,
                    failed |-> faults \cap GuardExecuted(n, faults)]))
    /\ UNCHANGED <<now, nextId, threads, callers>>

\* restart on the same machine, on a store that can fail
RestartOnFailingStore ==
    /\ \E faults \in SUBSET Statements : OpenStore(node, "restart", faults)
    /\ UNCHANGED <<ui, guards>>

\* the data store is opened on another machine, on a store that can fail
RelocateOnFailingStore ==
    /\ \E n \in Nodes \ {node}, faults \in SUBSET Statements :
           OpenStore(n, "relocate", faults)
    /\ UNCHANGED <<ui, guards>>

\* is_licensed() that marks a license it refuses as inactive
IsLicensed_deactivates ==
    /\ Record(Call("is_licensed", "", <<>>, is_licensed, FALSE))
    /\ IF is_licensed \/ LicenseRows = {}
       THEN UNCHANGED <<license, cache>>
       ELSE /\ license' = set_license_active(FALSE)
            /\ cache' = NoCache
    /\ UNCHANGED <<node, now, visitors, nextId, pc, window, guards, tables, callers, threads>>

\* LicenseManager.is_licensed()
IsLicensed ==
    /\ Record(Call("is_licensed", "", <<>>, is_licensed, FALSE))
    /\ UNCHANGED <<node, now, license, visitors, nextId, cache, pc, window, guards, tables, callers, threads>>

\* LicenseManager.activate_license(k, e).  The call records whether there
\* was no license row before it
Activate ==
    \E k \in KeyInputs, e \in ExpiryInputs :
        /\ <<k, e>> \in ActivateInputs
        /\ IF activate_license(k, e)
           THEN /\ license' = save_license(encrypt(node, <<k, "|">> \o e),
                                           LicenseManager_get_device_mac(node), TRUE)
                /\ cache' = NoCache
           ELSE UNCHANGED <<license, cache>>
        /\ Record(Call("activate", k, e, activate_license(k, e), LicenseRows = {}))
        /\ UNCHANGED <<node, now, visitors, nextId, pc, window, guards, tables, callers, threads>>

\* login_with_key that returns True without set_license_active(True)
Login_without_write ==
    \E k \in KeyInputs :
        /\ Record(Call("login", k, <<>>, login_with_key(k),
                       last.op = "logout" /\ last.val))
        /\ UNCHANGED <<node, now, license, visitors, nextId, cache, pc, window,
                       guards, tables, callers, threads>>

\* LicenseManager.login_with_key(k).  The call records whether it follows
\* directly a logout from a state in which is_licensed() was true
Login ==
    \E k \in KeyInputs :
        /\ IF login_with_key(k)
           THEN /\ license' = set_license_active(TRUE)
                /\ cache' = NoCache
           ELSE UNCHANGED <<license, cache>>
        /\ Record(Call("login", k, <<>>, login_with_key(k),
                       last.op = "logout" /\ last.val))
        /\ UNCHANGED <<node, now, visitors, nextId, pc, window, guards, tables, callers, threads>>

\* logout: DatabaseManager.set_license_active(False).  The call records
\* whether is_licensed() was true before it
Logout ==
    /\ pc = "idle"
    /\ license' = set_license_active(FALSE)
    /\ cache' = NoCache
    /\ Record(Call("logout", "", <<>>, TRUE, is_licensed))
    /\ UNCHANGED <<node, now, visitors, nextId, pc, window, guards, tables, callers, threads>>

\* revoke_license that deactivates the license and keeps the row
Revoke_deactivates ==
    /\ pc = "idle"
    /\ license' = set_license_active(FALSE)
    /\ Record(Call("revoke", "", <<>>, TRUE,
                   LicenseRows # {} /\ get_license_info.license_key # NoPayload))
    /\ UNCHANGED <<node, now, visitors, nextId, cache, pc, window, guards, tables, callers, threads>>

\* LicenseManager.revoke_license(): DELETE FROM license WHERE id = 1.  The
\* call records whether the row held a payload before it
Revoke ==
    /\ pc = "idle"
    /\ license' = {r \in license : r.id # 1}
    /\ Record(Call("revoke", "", <<>>, TRUE,
                   LicenseRows # {} /\ get_license_info.license_key # NoPayload))
    /\ UNCHANGED <<node, now, visitors, nextId, cache, pc, window, guards, tables, callers, threads>>

\* DatabaseManager.add_visitor(hp_no=hp, ...), no NRIC given
AddVisitor ==
    \E hp \in HpInputs :
        /\ nextId <= MaxVisitors
        /\ IF validate_hp(hp)
           THEN /\ visitors' = InsertVisitor(hp)
                /\ nextId' = nextId + 1
                /\ cache' = add_visitor_invalidate(cache)
           ELSE UNCHANGED <<visitors, nextId, cache>>
        /\ Record(Call("add_visitor", Flat(hp), <<>>, validate_hp(hp), nextId))
        /\ UNCHANGED <<node, now, license, pc, window, guards, tables, callers, threads>>

\* DatabaseManager.checkout_visitor(id)
CheckoutVisitor ==
    \E id \in 1..MaxVisitors :
        /\ IF \E r \in visitors : r.id = id
           THEN /\ visitors' = UpdateCheckout(id)
                /\ cache' = checkout_visitor_invalidate(cache)
           ELSE UNCHANGED <<visitors, cache>>
        /\ Record(Call("checkout_visitor", "", <<>>, \E r \in visitors : r.id = id, id))
        /\ UNCHANGED <<node, now, license, nextId, pc, window, guards, tables, callers, threads>>

\* a read behind the cache: the cached value on a hit, else the query's
\* result, which is cached
CachedRead(op, key, query) ==
    /\ cache' = IF Hit(cache, key) THEN cache_get(cache, key)
                ELSE cache_set(cache_get(cache, key), key, query)
    /\ Record(Call(op, "", <<>>, Hit(cache, key),
                   IF Hit(cache, key) THEN cache[key].value ELSE query))
    /\ UNCHANGED <<node, now, license, visitors, nextId, pc, window, guards, tables, callers, threads>>

\* DatabaseManager.get_active_visitors()
GetActiveVisitors == CachedRead("get_active_visitors", KeyActiveAll, ActiveQuery)

\* DatabaseManager.get_todays_history()
GetTodaysHistory == CachedRead("get_todays_history", KeyHistoryToday, HistoryQuery)

\* DatabaseManager.get_todays_checkin_count()
GetTodaysCheckinCount == CachedRead("get_todays_checkin_count", KeyCountsToday, CountQuery)

\* DatabaseManager.get_average_duration()
GetAverageDuration == CachedRead("get_average_duration", KeyCountsAvg, AvgQuery)

(***************************************************************************)
(* main.start_app: MainWindow(), window.show(), run_startup_flow()         *)
(***************************************************************************)
\* the tables and the clock, which the steps of the user interface that
\* make no call leave alone
store == <<node, now, license, visitors, nextId, cache>>

\* a process starts and its timer calls start_app
start_app ==
    /\ pc = "idle"
    /\ pc' = "MainWindow"
    /\ window' = "none"
    /\ guards' = 0
    /\ Record(Call("start_app", "", <<>>, TRUE, {}))
    /\ UNCHANGED <<store, threads, tables, callers>>

\* MainWindow.__init__ that makes its DatabaseManager without the guard
MainWindow_init_unguarded ==
    /\ pc = "MainWindow"
    /\ cache' = NoCache
    /\ pc' = "init_ui"
    /\ Record(Call("MainWindow", "", <<>>, TRUE,
                   [mismatch |-> FALSE, before |-> visitors, norow |-> LicenseRows = {},
                    fresh |-> FALSE, failed |-> {}]))
    /\ UNCHANGED <<node, now, license, visitors, nextId, window, guards, tables, callers, threads>>

\* MainWindow.__init__, first part: DatabaseManager() runs the guard
MainWindow_init ==
    /\ pc = "MainWindow"
    /\ \E faults \in SUBSET Statements : OpenStore(node, "MainWindow", faults)
    /\ guards' = guards + 1
    /\ pc' = "init_ui"
    /\ UNCHANGED window

\* _store after a read behind the cache
ReadThrough(cached, key, query) ==
    IF Hit(cached, key) THEN cache_get(cached, key)
    ELSE cache_set(cache_get(cached, key), key, query)

\* _store after DashboardWidget.refresh_data, which reads the count of
\* today, the active visitors and the average duration
dashboard_refresh(cached) ==
    ReadThrough(ReadThrough(ReadThrough(cached, KeyCountsToday, CountQuery),
                            KeyActiveAll, ActiveQuery),
                KeyCountsAvg, AvgQuery)

\* MainWindow.__init__, second part: init_ui builds the widgets, each of
\* which loads its data (dashboard, active visitors, history)
init_ui ==
    /\ pc = "init_ui"
    /\ cache' = ReadThrough(ReadThrough(dashboard_refresh(cache), KeyActiveAll, ActiveQuery),
                            KeyHistoryToday, HistoryQuery)
    /\ window' = "constructed"
    /\ pc' = "show"
    /\ Record(Call("init_ui", "", <<>>, TRUE, ActiveQuery))
    /\ UNCHANGED <<node, now, license, visitors, nextId, guards, tables, callers, threads>>

\* window.show()
window_show ==
    /\ pc = "show"
    /\ window' = "shown"
    /\ pc' = "run_startup_flow"
    /\ Record(Call("show", "", <<>>, TRUE, {}))
    /\ UNCHANGED <<store, guards, tables, callers, threads>>

\* get_license_info answers a row with a license_key
InfoHasKey(faults) ==
    "select" \notin faults /\ LicenseRows # {} /\ get_license_info.license_key # NoPayload

\* where _ensure_license goes when its get_license_info runs with faults1
\* and its is_licensed() with faults2
ensure_license_branch(faults1, faults2) ==
    IF InfoHasKey(faults1)
    THEN IF get_license_info.is_active
         THEN IF is_licensed_on(faults2) THEN "licensed" ELSE "activate_dialog"
         ELSE "login_dialog"
    ELSE "activate_dialog"

\* MainWindow._ensure_license up to its return or its dialog
ensure_license ==
    /\ pc = "run_startup_flow"
    /\ \E faults1 \in SUBSET {"select"}, faults2 \in SUBSET {"select"} :
           /\ pc' = ensure_license_branch(faults1, faults2)
           /\ Record(Call("_ensure_license", "", <<>>,
                          ensure_license_branch(faults1, faults2) = "licensed",
                          faults1 \cup faults2))
    /\ UNCHANGED <<store, window, guards, tables, callers, threads>>

\* LicenseDialog._on_action in mode "login"
LicenseDialog_login ==
    /\ pc = "login_dialog"
    /\ \E k \in KeyInputs, faults \in SUBSET {"select", "update"} :
           LET ok == login_with_key_on(faults, k) /\ "update" \notin faults IN
           /\ IF ok
              THEN /\ license' = set_license_active(TRUE)
                   /\ cache' = NoCache
                   /\ pc' = "licensed"
              ELSE UNCHANGED <<license, cache, pc>>
           /\ Record(Call("dialog_login", k, <<>>, ok, faults))
    /\ UNCHANGED <<node, now, visitors, nextId, window, guards, tables, callers, threads>>

\* LicenseDialog._on_action in mode "activate"
LicenseDialog_activate ==
    /\ pc = "activate_dialog"
    /\ \E k \in KeyInputs, e \in ExpiryInputs, faults \in SUBSET {"insert"} :
           LET ok == /\ strptime(Flat(e)) # -1
                     /\ validate_license(node, k, Flat(e))
                     /\ activate_license(k, e)
                     /\ "insert" \notin faults IN
           /\ <<k, e>> \in ActivateInputs
           /\ IF ok
              THEN /\ license' = save_license(encrypt(node, <<k, "|">> \o e),
                                              LicenseManager_get_device_mac(node), TRUE)
                   /\ cache' = NoCache
                   /\ pc' = "activated"
              ELSE UNCHANGED <<license, cache, pc>>
           /\ Record(Call("dialog_activate", k, e, ok, faults))
    /\ UNCHANGED <<node, now, visitors, nextId, window, guards, tables, callers, threads>>

\* LicenseDialog._on_cancel, confirmed: the dialog is rejected
LicenseDialog_cancel ==
    /\ pc \in {"login_dialog", "activate_dialog"}
    /\ pc' = "unlicensed"
    /\ Record(Call("dialog_cancel", "", <<>>, FALSE, {}))
    /\ UNCHANGED <<store, window, guards, tables, callers, threads>>

\* _ensure_license returning True after an accepted activation as it does
\* after an accepted login, without is_licensed()
ensure_license_activated_unchecked ==
    /\ pc = "activated"
    /\ pc' = "licensed"
    /\ Record(Call("_ensure_license", "", <<>>, TRUE, {}))
    /\ UNCHANGED <<node, now, license, visitors, nextId, cache, window, guards, tables, callers, threads>>

\* MainWindow._ensure_license after an accepted activation:
\* return self.license_manager.is_licensed()
ensure_license_activated ==
    /\ pc = "activated"
    /\ \E faults \in SUBSET {"select"} :
           /\ pc' = IF is_licensed_on(faults) THEN "licensed" ELSE "unlicensed"
           /\ Record(Call("_ensure_license", "", <<>>, is_licensed_on(faults), faults))
    /\ UNCHANGED <<store, window, guards, tables, callers, threads>>

\* run_startup_flow returns: the window stays when the license flow
\* succeeded, else start_app closes it and the process exits
run_startup_flow ==
    /\ pc \in {"licensed", "unlicensed"}
    /\ pc' = "idle"
    /\ window' = IF pc = "licensed" THEN window ELSE "closed"
    /\ Record(Call("run_startup_flow", "", <<>>, pc = "licensed", {}))
    /\ UNCHANGED <<store, guards, tables, callers, threads>>

\* LicenseManager.is_licensed() on a store that can fail
IsLicensedOnFailingStore ==
    /\ pc = "idle"
    /\ \E faults \in SUBSET {"select"} :
           Record(Call("is_licensed", "", <<>>, is_licensed_on(faults), faults))
    /\ UNCHANGED <<store, pc, window, guards, tables, callers, threads>>

\* LicenseManager.login_with_key(k) on a store that can fail
LoginOnFailingStore ==
    /\ pc = "idle"
    /\ \E k \in KeyInputs, faults \in SUBSET {"select", "update"} :
           LET ok == login_with_key_on(faults, k) /\ "update" \notin faults IN
           /\ IF ok
              THEN /\ license' = set_license_active(TRUE)
                   /\ cache' = NoCache
              ELSE UNCHANGED <<license, cache>>
           /\ Record(Call("login", k, <<>>, ok, faults))
    /\ UNCHANGED <<node, now, visitors, nextId, pc, window, guards, tables, callers, threads>>

\* the data store is copied to another machine, where no process has it open
MoveStore ==
    /\ pc = "idle"
    /\ \E n \in Nodes \ {node} : node' = n
    /\ window' = "none"
    /\ Record(Call("move", "", <<>>, TRUE, {}))
    /\ UNCHANGED <<now, license, visitors, nextId, cache, pc, guards, tables, callers, threads>>

\* the start of the application, and the calls between two starts: all of
\* it runs on the one thread of the user interface
NextStartup ==
    \/ start_app
    \/ MainWindow_init
    \/ init_ui
    \/ window_show
    \/ ensure_license
    \/ LicenseDialog_login
    \/ LicenseDialog_activate
    \/ LicenseDialog_cancel
    \/ ensure_license_activated
    \/ run_startup_flow
    \/ IsLicensedOnFailingStore
    \/ Logout
    \/ Revoke
    \/ Tick
    \/ MoveStore

SpecStartup == Init /\ [][NextStartup]_vars

(***************************************************************************)
(* _SimpleCache called on its own                                          *)
(***************************************************************************)
KeyActiveCount == <<"a", "c", "t", "i", "v", "e", ":", "c", "o", "u", "n", "t">>

\* the keys, values and invalidate arguments of the calls: None, prefixes of
\* keys, a whole key, the empty prefix and a text that is inside a key but
\* not at its start
CacheKeys == {KeyActiveAll, KeyActiveCount, KeyHistoryToday}
CacheValues == {"X", "Y"}
InvalidateArgs ==
    {<<>>, <<PrefixActive>>, <<PrefixHistory>>, <<KeyActiveAll>>,
     <<SubSeq(KeyHistoryToday, 9, 13)>>, <<SubSeq(PrefixActive, 1, 0)>>}

\* _SimpleCache.get(key).  The call records the value it returns and
\* whether it deleted the entry
SimpleCache_get ==
    /\ pc = "idle"
    /\ \E key \in CacheKeys :
           /\ cache' = cache_get(cache, key)
           /\ Record(Call("get", "", key, Hit(cache, key),
                          [value |-> IF Hit(cache, key) THEN cache[key].value ELSE "None",
                           evicted |-> Expired(cache, key)]))
    /\ UNCHANGED <<node, now, license, visitors, nextId, pc, window, guards, tables, callers, threads>>

\* _SimpleCache.set(key, value)
SimpleCache_set ==
    /\ pc = "idle"
    /\ \E key \in CacheKeys, value \in CacheValues :
           /\ cache' = cache_set(cache, key, value)
           /\ Record(Call("set", "", key, TRUE, value))
    /\ UNCHANGED <<node, now, license, visitors, nextId, pc, window, guards, tables, callers, threads>>

\* _SimpleCache.invalidate(prefix).  The call records the keys before it
SimpleCache_invalidate ==
    /\ pc = "idle"
    /\ \E arg \in InvalidateArgs :
           /\ cache' = invalidate_arg(cache, arg)
           /\ Record(Call("invalidate", "", arg, TRUE, DOMAIN cache))
    /\ UNCHANGED <<node, now, license, visitors, nextId, pc, window, guards, tables, callers, threads>>

NextSimpleCache ==
    \/ Tick
    \/ SimpleCache_get
    \/ SimpleCache_set
    \/ SimpleCache_invalidate

SpecSimpleCache == Init /\ [][NextSimpleCache]_vars

(***************************************************************************)
(* A session: the process from start_app to its exit, with the               *)
(* registration form, the check-out button and the Log Out menu entry of   *)
(* the main window.  The widgets exist once the startup flow has returned  *)
(* and the window is shown.  The clock is held during the sessions.        *)
(***************************************************************************)
\* RegistrationWidget.validate_hp: non-empty, digits or "+-"
RegistrationWidget_validate_hp(text) ==
    /\ text # <<>>
    /\ \A i \in 1..Len(text) : text[i] \in Digits \cup {"+", "-"}

\* DatabaseManager.has_active_visit(nric="", hp_no=hp)
has_active_visit(hp_no) ==
    /\ hp_no # <<>>
    /\ \E r \in visitors : r.hp_no = hp_no /\ r.check_out_time = NULL

\* table blacklist: the hp_no of its rows (hp_no is UNIQUE)
blacklist == tables.blacklist

\* DatabaseManager.is_hp_blacklisted
is_hp_blacklisted(hp_no) == hp_no \in blacklist

\* RegistrationWidget.search_existing: warns "Visitor Already Inside" when
\* has_active_visit, else fills the form from the last visit.  The call
\* returns whether it went on to fill the form
search_existing ==
    /\ pc = "idle" /\ window = "shown"
    /\ \E hp \in HpInputs :
           Record(Call("search_existing", Flat(hp), <<>>, ~has_active_visit(hp), {}))
    /\ UNCHANGED <<store, pc, window, guards, tables, callers, threads>>

\* RegistrationWidget.register_visitor with the required fields filled and
\* a well-formed NRIC: validate_hp, is_hp_blacklisted, add_visitor.  The
\* call records whether a visit with this HP number was active before it
register_visitor ==
    /\ pc = "idle" /\ window = "shown"
    /\ nextId <= MaxVisitors
    /\ \E hp \in HpInputs :
           LET success == /\ RegistrationWidget_validate_hp(hp)
                          /\ ~is_hp_blacklisted(hp)
                          /\ validate_hp(hp) IN
           /\ IF success
              THEN /\ visitors' = InsertVisitor(hp)
                   /\ nextId' = nextId + 1
                   /\ cache' = add_visitor_invalidate(cache)
              ELSE UNCHANGED <<visitors, nextId, cache>>
           /\ Record(Call("register_visitor", Flat(hp), <<>>, success,
                          has_active_visit(hp)))
    /\ UNCHANGED <<node, now, license, pc, window, guards, tables, callers, threads>>

\* checkout_visitor: _fetchone found the row (None on a failed SELECT)
checkout_found(faults, visitor_id) ==
    "select" \notin faults /\ \E r \in visitors : r.id = visitor_id

\* DatabaseManager.checkout_visitor(visitor_id): False when no row was
\* found, else True; the result of _execute(UPDATE) is not looked at
checkout_visitor(faults, visitor_id) == checkout_found(faults, visitor_id)

\* table visitors after checkout_visitor: _execute does nothing on a failed
\* UPDATE
checkout_rows(faults, visitor_id) ==
    IF checkout_found(faults, visitor_id) /\ "update" \notin faults
    THEN UpdateCheckout(visitor_id)
    ELSE visitors

\* ActiveVisitorsWidget.checkout_visitor(visitor_id), confirmed, while the
\* statements in faults fail: DatabaseManager.checkout_visitor, and on
\* success the message and refresh_data().  The call records the id, the
\* failed statements and the rows before it
ActiveVisitorsWidget_checkout_visitor ==
    /\ pc = "idle" /\ window = "shown"
    /\ \E visitor_id \in 1..MaxVisitors, faults \in SUBSET {"select", "update"} :
           /\ visitors' = checkout_rows(faults, visitor_id)
           /\ cache' = IF checkout_found(faults, visitor_id)
                       THEN ReadThrough(checkout_visitor_invalidate(cache),
                                        KeyActiveAll, ActiveQuery')
                       ELSE cache
           /\ Record(Call("checkout_visitor", "", <<>>,
                          checkout_visitor(faults, visitor_id),
                          [id |-> visitor_id, faults |-> faults, before |-> visitors]))
    /\ UNCHANGED <<node, now, license, nextId, pc, window, guards, tables, callers, threads>>

\* _logout that deactivates the license
MainWindow_logout_deactivates ==
    /\ pc = "idle" /\ window = "shown"
    /\ \E reply \in BOOLEAN :
           /\ IF reply
              THEN /\ pc' = "user_login" /\ window' = "hidden"
                   /\ license' = set_license_active(FALSE)
              ELSE UNCHANGED <<pc, window, license>>
           /\ Record(Call("_logout", "", <<>>, reply, is_licensed))
    /\ UNCHANGED <<node, now, visitors, nextId, cache, guards, tables, callers, threads>>

\* MainWindow._logout up to the user login dialog: on "Yes" the user is
\* cleared and the window hidden.  The call records whether is_licensed()
\* was true before it
MainWindow_logout ==
    /\ pc = "idle" /\ window = "shown"
    /\ \E reply \in BOOLEAN :
           /\ IF reply
              THEN pc' = "user_login" /\ window' = "hidden"
              ELSE UNCHANGED <<pc, window>>
           /\ Record(Call("_logout", "", <<>>, reply, is_licensed))
    /\ UNCHANGED <<store, guards, tables, callers, threads>>

\* MainWindow._logout after _ensure_user_login: the window is shown again
\* after a login and closed after a cancelled one
ensure_user_login ==
    /\ pc = "user_login"
    /\ \E accepted \in BOOLEAN :
           /\ window' = IF accepted THEN "shown" ELSE "closed"
           /\ Record(Call("_ensure_user_login", "", <<>>, accepted, {}))
    /\ pc' = "idle"
    /\ UNCHANGED <<store, guards, tables, callers, threads>>

NextSession ==
    \/ start_app
    \/ MainWindow_init
    \/ init_ui
    \/ window_show
    \/ ensure_license
    \/ LicenseDialog_activate
    \/ LicenseDialog_cancel
    \/ ensure_license_activated
    \/ run_startup_flow
    \/ search_existing
    \/ register_visitor
    \/ ActiveVisitorsWidget_checkout_visitor
    \/ MainWindow_logout
    \/ ensure_user_login

SpecSession == Init /\ [][NextSession]_vars

(***************************************************************************)
(* The text of a license key.  generate_license_key above writes the key   *)
(* of a digest as "key16(sha256(s))", which is all that the comparison of  *)
(* keys needs; here the key is computed character by character from the    *)
(* SHA-256 digests of the strings that the calls below are made with.      *)
(***************************************************************************)
\* device identifiers generate_license_key is called with: those of the
\* machines, the one of the scenario, and the answer of get_device_mac
\* when uuid fails
MacInputs ==
    {LicenseManager_get_device_mac(n) : n \in Nodes} \cup {"AA:BB:CC:DD:EE:FF", "UNKNOWN"}

\* hashlib.sha256(base_string.encode()).hexdigest()
hexdigest(base_string) ==
    CASE base_string = "00:00:00:A1:B2:C3_2026-01-01_MNEO_VMS" ->
           <<"6","1","5","5","1","9","f","7","7","a","b","8","a","e","3","2","2","c","3","5","6","0","e","b","e","0","4","f","4","0","0","8">> \o
           <<"7","2","b","8","4","8","d","d","4","6","9","4","8","c","9","2","b","c","6","2","f","6","9","c","9","6","1","1","4","f","8","b">>
      [] base_string = "00:00:00:A1:B2:C3_2026-01-02_MNEO_VMS" ->
           <<"0","9","4","a","9","e","5","3","7","b","0","1","a","f","b","5","9","6","8","6","7","0","9","9","9","8","0","e","3","1","9","9">> \o
           <<"1","e","9","e","7","c","a","d","c","5","2","b","2","9","d","4","0","9","3","f","c","4","7","3","4","a","a","6","1","5","4","c">>
      [] base_string = "00:00:00:A1:B2:C3_soon_MNEO_VMS" ->
           <<"e","5","9","d","2","d","4","5","7","6","a","f","1","8","8","8","d","4","2","6","7","2","c","9","b","1","3","4","9","8","5","1">> \o
           <<"c","d","2","3","4","b","f","f","9","4","1","a","5","6","6","1","3","3","3","b","d","1","d","e","2","8","b","d","0","9","f","3">>
      [] base_string = "00:00:00:A1:B2:C3_2026|01_MNEO_VMS" ->
           <<"f","5","1","f","7","d","c","1","2","c","1","3","9","c","f","6","6","6","c","2","1","6","1","d","b","6","7","7","9","9","6","6">> \o
           <<"e","0","b","d","4","0","1","0","e","d","7","b","9","f","6","c","2","5","8","d","5","2","9","d","b","8","0","9","f","0","5","6">>
      [] base_string = "00:00:00:A1:B2:C4_2026-01-01_MNEO_VMS" ->
           <<"5","2","c","6","7","0","6","a","d","1","3","5","e","8","2","5","5","6","f","3","8","8","8","9","9","4","3","2","6","1","2","2">> \o
           <<"a","e","1","b","4","e","8","4","9","3","0","9","f","8","8","0","2","9","8","3","3","7","4","1","b","3","6","3","1","f","3","9">>
      [] base_string = "00:00:00:A1:B2:C4_2026-01-02_MNEO_VMS" ->
           <<"9","0","a","b","5","4","7","5","b","f","1","9","6","9","f","1","3","2","c","2","6","4","d","d","c","6","2","4","f","f","1","a">> \o
           <<"a","f","2","b","3","9","5","d","7","8","4","5","f","a","4","5","a","6","7","f","8","b","e","1","f","2","c","d","4","7","1","b">>
      [] base_string = "00:00:00:A1:B2:C4_soon_MNEO_VMS" ->
           <<"3","1","4","1","0","5","4","4","7","8","4","e","6","b","4","6","3","2","4","2","6","5","4","2","3","b","c","9","c","3","4","8">> \o
           <<"7","6","9","a","8","1","1","d","3","4","f","b","e","d","4","c","0","b","3","6","2","e","7","c","b","c","9","0","6","2","f","a">>
      [] base_string = "00:00:00:A1:B2:C4_2026|01_MNEO_VMS" ->
           <<"0","c","d","3","1","d","b","d","5","1","a","3","0","9","6","d","6","e","1","1","6","9","2","c","b","4","a","2","e","0","0","c">> \o
           <<"6","5","2","6","6","e","f","a","a","1","8","f","0","8","f","a","b","8","5","a","3","c","b","0","c","e","7","e","a","5","1","1">>
      [] base_string = "AA:BB:CC:DD:EE:FF_2026-01-01_MNEO_VMS" ->
           <<"7","a","c","7","5","e","3","6","0","e","a","9","e","7","a","d","5","a","2","d","b","9","0","1","f","d","7","4","4","3","3","f">> \o
           <<"8","3","7","b","2","5","6","b","0","a","9","3","c","5","c","e","d","f","a","9","9","b","4","5","4","a","0","7","d","c","b","d">>
      [] base_string = "AA:BB:CC:DD:EE:FF_2026-01-02_MNEO_VMS" ->
           <<"9","b","c","a","c","6","d","0","b","1","e","7","f","4","9","f","6","5","3","f","c","7","2","8","d","7","b","2","6","2","1","f">> \o
           <<"a","5","8","8","b","6","b","4","c","c","7","9","f","3","b","6","2","2","c","4","6","8","5","5","7","7","3","7","1","4","f","6">>
      [] base_string = "AA:BB:CC:DD:EE:FF_soon_MNEO_VMS" ->
           <<"6","e","9","d","c","e","6","1","a","7","1","d","1","1","0","1","3","2","9","e","d","4","c","0","5","4","d","2","4","b","8","9">> \o
           <<"9","f","4","c","b","3","d","9","8","f","c","3","f","4","d","2","9","0","4","7","7","f","2","0","d","b","b","a","6","6","3","4">>
      [] base_string = "AA:BB:CC:DD:EE:FF_2026|01_MNEO_VMS" ->
           <<"8","7","7","d","e","a","7","c","7","f","e","4","3","a","3","7","d","6","2","0","5","5","c","3","1","6","2","3","4","1","e","6">> \o
           <<"d","8","b","3","e","c","5","f","0","0","e","d","3","e","c","c","1","c","1","3","f","1","9","1","8","9","d","3","2","a","f","0">>
      [] base_string = "UNKNOWN_2026-01-01_MNEO_VMS" ->
           <<"2","f","a","1","1","e","8","9","b","6","d","4","e","e","e","7","e","1","6","5","3","f","3","9","2","7","1","e","b","6","e","5">> \o
           <<"e","a","1","1","a","2","e","e","6","1","0","c","1","7","6","b","0","5","7","8","9","4","c","0","8","d","0","2","0","f","6","4">>
      [] base_string = "UNKNOWN_2026-01-02_MNEO_VMS" ->
           <<"6","e","6","2","7","f","9","c","7","b","a","3","5","5","0","e","3","c","e","4","7","3","3","4","5","5","6","8","3","4","8","e">> \o
           <<"1","2","2","e","6","5","f","c","4","8","1","9","e","2","9","6","2","4","4","3","f","3","6","3","9","e","d","c","4","d","6","5">>
      [] base_string = "UNKNOWN_soon_MNEO_VMS" ->
           <<"5","e","3","c","f","1","6","e","3","1","7","8","e","9","9","c","a","f","1","c","9","d","5","9","f","d","3","a","f","f","b","d">> \o
           <<"f","9","0","d","7","a","0","2","0","c","9","5","f","e","7","9","9","1","0","7","0","8","3","a","a","c","b","1","e","e","1","c">>
      [] base_string = "UNKNOWN_2026|01_MNEO_VMS" ->
           <<"9","6","8","6","e","3","2","5","b","0","3","6","3","3","c","8","7","5","2","5","e","7","6","3","5","4","8","9","5","1","6","0">> \o
           <<"3","7","9","f","2","e","7","0","3","c","0","0","4","8","b","1","4","0","c","0","4","b","4","7","5","2","9","c","9","e","7","a">>

\* str.upper() that leaves the text as it is
upper_keep(text) == text

\* str.upper() on the characters of a hex digest
upper(text) ==
    [i \in 1..Len(text) |->
        CASE text[i] = "a" -> "A" [] text[i] = "b" -> "B" [] text[i] = "c" -> "C"
          [] text[i] = "d" -> "D" [] text[i] = "e" -> "E" [] text[i] = "f" -> "F"
          [] OTHER -> text[i]]

RECURSIVE join(_, _)
\* sep.join(parts)
join(sep, parts) ==
    IF parts = <<>> THEN <<>>
    ELSE IF Len(parts) = 1 THEN parts[1]
    ELSE parts[1] \o sep \o join(sep, Tail(parts))

\* LicenseManager.generate_license_key, as characters:
\* "-".join([hash_hex[i:i+4].upper() for i in range(0, 16, 4)])
generate_license_key_text(mac, expiry_date) ==
    LET hash_hex == hexdigest(mac \o "_" \o expiry_date \o "_MNEO_VMS") IN
    join(<<"-">>, [g \in 1..4 |-> upper(SubSeq(hash_hex, 4 * (g - 1) + 1, 4 * g))])

\* LicenseManager.generate_license_key(mac, expiry_date), called in any
\* state of the store
GenerateLicenseKey ==
    /\ pc = "idle"
    /\ \E mac \in MacInputs, e \in ExpiryInputs :
           Record(Call("generate_license_key", mac, e,
                       generate_license_key_text(mac, Flat(e)), {}))
    /\ UNCHANGED <<store, pc, window, guards, tables, callers, threads>>

NextKey ==
    \/ GenerateLicenseKey
    \/ Tick
    \/ MoveStore

SpecKey == Init /\ [][NextKey]_vars

(***************************************************************************)
(* The licensing calls as their caller sees them: on a store that can      *)
(* fail, and on a LicenseManager() constructed without a db_manager.  A    *)
(* call without db_manager records "returned" or the exception it raised.  *)
(***************************************************************************)
\* LicenseManager.activate_license(k, e) on a store that can fail: save_license
\* answers False on sqlite3.Error
ActivateOnFailingStore ==
    /\ pc = "idle"
    /\ \E k \in KeyInputs, e \in ExpiryInputs, faults \in SUBSET {"insert"} :
           LET ok == activate_license(k, e) /\ "insert" \notin faults IN
           /\ <<k, e>> \in ActivateInputs
           /\ IF ok
              THEN /\ license' = save_license(encrypt(node, <<k, "|">> \o e),
                                              LicenseManager_get_device_mac(node), TRUE)
                   /\ cache' = NoCache
              ELSE UNCHANGED <<license, cache>>
           /\ Record(Call("activate", k, e, ok, faults))
    /\ UNCHANGED <<node, now, visitors, nextId, pc, window, guards, tables, callers, threads>>

\* logout on a store that can fail: set_license_active(False) answers False
\* on sqlite3.Error
LogoutOnFailingStore ==
    /\ pc = "idle"
    /\ \E faults \in SUBSET {"update"} :
           /\ IF "update" \in faults
              THEN UNCHANGED <<license, cache>>
              ELSE /\ license' = set_license_active(FALSE)
                   /\ cache' = NoCache
           /\ Record(Call("logout", "", <<>>, "update" \notin faults, faults))
    /\ UNCHANGED <<node, now, visitors, nextId, pc, window, guards, tables, callers, threads>>

\* LicenseManager.revoke_license() on a store that can fail: the bare except
\* answers False
RevokeOnFailingStore ==
    /\ pc = "idle"
    /\ \E faults \in SUBSET {"delete"} :
           /\ license' = IF "delete" \in faults THEN license
                                                ELSE {r \in license : r.id # 1}
           /\ Record(Call("revoke", "", <<>>, "delete" \notin faults, faults))
    /\ UNCHANGED <<node, now, visitors, nextId, cache, pc, window, guards, tables, callers, threads>>

\* LicenseManager().is_licensed(): "if not self.db_manager: return False"
IsLicensedWithoutStore ==
    /\ pc = "idle"
    /\ Record(Call("LicenseManager().is_licensed", "", <<>>, FALSE, "returned"))
    /\ UNCHANGED <<store, pc, window, guards, tables, callers, threads>>

\* LicenseManager().activate_license(k, e): a key that does not validate
\* returns False; a valid key reaches self.db_manager.save_license with
\* db_manager None, outside any try
ActivateWithoutStore ==
    /\ pc = "idle"
    /\ \E k \in KeyInputs, e \in ExpiryInputs :
           /\ <<k, e>> \in ActivateInputs
           /\ Record(Call("LicenseManager().activate_license", k, e, FALSE,
                          IF activate_license(k, e) THEN "AttributeError"
                                                    ELSE "returned"))
    /\ UNCHANGED <<store, pc, window, guards, tables, callers, threads>>

\* LicenseManager().login_with_key(k): self.db_manager.get_license_info()
\* raises inside the try, "except Exception" returns False
LoginWithoutStore ==
    /\ pc = "idle"
    /\ \E k \in KeyInputs :
           Record(Call("LicenseManager().login_with_key", k, <<>>, FALSE, "returned"))
    /\ UNCHANGED <<store, pc, window, guards, tables, callers, threads>>

\* LicenseManager().revoke_license(): self.db_manager.get_connection()
\* raises inside the try, the bare except returns False
RevokeWithoutStore ==
    /\ pc = "idle"
    /\ Record(Call("LicenseManager().revoke_license", "", <<>>, FALSE, "returned"))
    /\ UNCHANGED <<store, pc, window, guards, tables, callers, threads>>

NextLicenseManager ==
    \/ IsLicensedOnFailingStore
    \/ ActivateOnFailingStore
    \/ LoginOnFailingStore
    \/ LogoutOnFailingStore
    \/ RevokeOnFailingStore
    \/ IsLicensedWithoutStore
    \/ ActivateWithoutStore
    \/ LoginWithoutStore
    \/ RevokeWithoutStore
    \/ Tick

SpecLicenseManager == Init /\ [][NextLicenseManager]_vars

(***************************************************************************)
(* Two threads on one DatabaseManager: a reader in get_active_visitors and *)
(* a writer in add_visitor or checkout_visitor.  Each call of              *)
(* _SimpleCache and each statement is one step; the lock of the cache is   *)
(* held within a step.                                                     *)
(***************************************************************************)
\* the writer takes a step: a read that is in progress is no longer alone
Disturbed == [threads.reader EXCEPT !.quiet = FALSE]

\* get_active_visitors: self._cache.get("active:all").  A hit returns the
\* cached value; the reader keeps the value returned and whether the writer
\* was at rest during the whole read
reader_get ==
    /\ threads.reader.pc = "idle"
    /\ cache' = cache_get(cache, KeyActiveAll)
    /\ IF Hit(cache, KeyActiveAll)
       THEN /\ Record(Call("get_active_visitors", "", <<>>, TRUE,
                           [value |-> cache[KeyActiveAll].value,
                            quiet |-> threads.writer.pc = "idle"]))
            /\ threads' = [threads EXCEPT !.reader =
                              [pc |-> "idle", result |-> cache[KeyActiveAll].value,
                               quiet |-> threads.writer.pc = "idle"]]
       ELSE /\ threads' = [threads EXCEPT !.reader =
                              [pc |-> "query", result |-> {},
                               quiet |-> threads.writer.pc = "idle"]]
            /\ UNCHANGED last
    /\ UNCHANGED <<node, now, license, visitors, nextId, pc, window, guards, tables, callers>>

\* get_active_visitors: the SELECT
reader_query ==
    /\ threads.reader.pc = "query"
    /\ threads' = [threads EXCEPT !.reader.pc = "set", !.reader.result = ActiveQuery]
    /\ UNCHANGED <<node, now, license, visitors, nextId, cache, last, pc, window, guards, tables, callers>>

\* get_active_visitors: self._cache.set("active:all", result) and return
reader_set ==
    /\ threads.reader.pc = "set"
    /\ cache' = cache_set(cache, KeyActiveAll, threads.reader.result)
    /\ Record(Call("get_active_visitors", "", <<>>, FALSE,
                   [value |-> threads.reader.result, quiet |-> threads.reader.quiet]))
    /\ threads' = [threads EXCEPT !.reader.pc = "idle"]
    /\ UNCHANGED <<node, now, license, visitors, nextId, pc, window, guards, tables, callers>>

\* add_visitor: the INSERT, committed
writer_insert ==
    /\ threads.writer.pc = "idle"
    /\ nextId <= MaxVisitors
    /\ \E hp \in HpInputs :
           /\ validate_hp(hp)
           /\ visitors' = InsertVisitor(hp)
           /\ nextId' = nextId + 1
    /\ threads' = [reader |-> Disturbed, writer |-> [pc |-> "active", op |-> "add_visitor"]]
    /\ UNCHANGED <<node, now, license, cache, last, pc, window, guards, tables, callers>>

\* checkout_visitor: the SELECT of the row and the UPDATE, committed
writer_update ==
    /\ threads.writer.pc = "idle"
    /\ \E id \in 1..MaxVisitors :
           /\ \E r \in visitors : r.id = id
           /\ visitors' = UpdateCheckout(id)
    /\ threads' = [reader |-> Disturbed,
                   writer |-> [pc |-> "active", op |-> "checkout_visitor"]]
    /\ UNCHANGED <<node, now, license, nextId, cache, last, pc, window, guards, tables, callers>>

\* the prefix the writer invalidates after the one it stands at, "idle"
\* after the last: add_visitor clears "active" and "counts",
\* checkout_visitor "active", "history" and "counts"
writer_after(w) ==
    CASE w.pc = "active" /\ w.op = "add_visitor" -> "counts"
      [] w.pc = "active" /\ w.op = "checkout_visitor" -> "history"
      [] w.pc = "history" -> "counts"
      [] w.pc = "counts" -> "idle"

\* add_visitor, checkout_visitor: the next self._cache.invalidate(prefix),
\* and return True after the last
writer_invalidate ==
    /\ threads.writer.pc \in {"active", "history", "counts"}
    /\ cache' = invalidate(cache, CASE threads.writer.pc = "active" -> PrefixActive
                                    [] threads.writer.pc = "history" -> PrefixHistory
                                    [] threads.writer.pc = "counts" -> PrefixCounts)
    /\ threads' = [reader |-> Disturbed,
                   writer |-> IF writer_after(threads.writer) = "idle"
                              THEN NoThreads.writer
                              ELSE [threads.writer EXCEPT !.pc = writer_after(threads.writer)]]
    /\ IF writer_after(threads.writer) = "idle"
       THEN Record(Call(threads.writer.op, "", <<>>, TRUE, FALSE))
       ELSE UNCHANGED last
    /\ UNCHANGED <<node, now, license, visitors, nextId, pc, window, guards, tables, callers>>

NextThreads ==
    \/ reader_get
    \/ reader_query
    \/ reader_set
    \/ writer_insert
    \/ writer_update
    \/ writer_invalidate
    \/ Tick

SpecThreads == Init /\ [][NextThreads]_vars

(***************************************************************************)
(* _SimpleCache under threads: get, set and invalidate statement by        *)
(* statement, each inside "with self._lock"                                *)
(***************************************************************************)
\* invalidate's prefix None, as a sequence of one atom
PrefixNone == <<"None">>

\* keys and prefixes the callers pass
CallerKeys == {KeyActiveAll, KeyHistoryToday}
CachePrefixes == {PrefixActive, PrefixNone}

\* the keys invalidate(prefix) covers
Covers(prefix, k) == prefix = PrefixNone \/ startswith(k, prefix)

\* a lock that excludes nobody
Lock_acquire_free == TRUE

\* Lock.acquire, on entering "with self._lock": it goes on when the lock is
\* unlocked
Lock_acquire == callers.lock = "free"

\* a thread calls get(key), set(key, value) or invalidate(prefix) and comes
\* to the with statement.  A get notes whether a completed invalidate had
\* removed the entry of its key when it began
cache_call(t) ==
    /\ callers.at[t].pc = "idle"
    /\ \/ \E k \in CallerKeys :
              callers' = [callers EXCEPT !.at[t] =
                             [NoCallers.at[t] EXCEPT !.pc = "get", !.key = k,
                                                     !.stale = k \in callers.gone]]
       \/ \E k \in CallerKeys :
              callers' = [callers EXCEPT !.at[t] =
                             [NoCallers.at[t] EXCEPT !.pc = "set", !.key = k]]
       \/ \E prefix \in CachePrefixes :
              callers' = [callers EXCEPT !.at[t] =
                             [NoCallers.at[t] EXCEPT !.pc = "invalidate", !.key = prefix]]
    /\ UNCHANGED <<store, last, pc, window, guards, threads, tables>>

\* with self._lock: the thread takes the lock and enters the body
cache_enter(t) ==
    /\ callers.at[t].pc \in {"get", "set", "invalidate"}
    /\ Lock_acquire
    /\ callers' = [callers EXCEPT !.lock = t,
                                  !.at[t].pc = CASE @ = "get" -> "get_lookup"
                                                 [] @ = "set" -> "set_store"
                                                 [] @ = "invalidate" -> "inv_keys"]
    /\ UNCHANGED <<store, last, pc, window, guards, threads, tables>>

\* the call of thread t ends and the with statement releases the lock
Leave(c, t) == [c EXCEPT !.lock = "free", !.at[t] = NoCallers.at[t]]

\* get: v = self._store.get(key); if not v: return None
cache_get_lookup(t) ==
    LET key == callers.at[t].key IN
    /\ callers.at[t].pc = "get_lookup"
    /\ IF key \in DOMAIN cache
       THEN /\ callers' = [callers EXCEPT !.at[t].pc = "get_check",
                                          !.at[t].v = cache[key]]
            /\ UNCHANGED last
       ELSE /\ callers' = Leave(callers, t)
            /\ Record(Call("cache_get", Flat(key), <<>>, FALSE,
                           [thread |-> t, stale |-> callers.at[t].stale,
                            why |-> "absent"]))
    /\ UNCHANGED <<store, pc, window, guards, threads, tables>>

\* get: created, value = v; if datetime.now() - created > self._ttl goes to
\* the del, else return value
cache_get_check(t) ==
    LET key == callers.at[t].key
        v == callers.at[t].v IN
    /\ callers.at[t].pc = "get_check"
    /\ IF now - v.created > CacheTtl
       THEN /\ callers' = [callers EXCEPT !.at[t].pc = "get_del"]
            /\ UNCHANGED last
       ELSE /\ callers' = Leave(callers, t)
            /\ Record(Call("cache_get", Flat(key), <<>>, TRUE,
                           [thread |-> t, stale |-> callers.at[t].stale,
                            why |-> "value"]))
    /\ UNCHANGED <<store, pc, window, guards, threads, tables>>

\* get: del self._store[key]; return None.  del raises KeyError when the
\* key is not in the dict
cache_get_del(t) ==
    LET key == callers.at[t].key IN
    /\ callers.at[t].pc = "get_del"
    /\ cache' = Evict(cache, {key})
    /\ callers' = [Leave(callers, t) EXCEPT
                       !.error = @ \/ key \notin DOMAIN cache]
    /\ Record(Call("cache_get", Flat(key), <<>>, FALSE,
                   [thread |-> t, stale |-> callers.at[t].stale,
                    why |-> IF key \in DOMAIN cache THEN "evicted" ELSE "KeyError"]))
    /\ UNCHANGED <<node, now, license, visitors, nextId, pc, window, guards, threads, tables>>

\* set: self._store[key] = (datetime.now(), value).  The entry is new: the
\* gets of the key that have begun can return it
cache_set_store(t) ==
    LET key == callers.at[t].key
        c == [callers EXCEPT !.gone = @ \ {key},
                             !.at = [u \in CacheThreads |->
                                        IF callers.at[u].key = key
                                        THEN [callers.at[u] EXCEPT !.stale = FALSE]
                                        ELSE callers.at[u]]] IN
    /\ callers.at[t].pc = "set_store"
    /\ cache' = cache_set(cache, key, ActiveQuery)
    /\ callers' = Leave(c, t)
    /\ Record(Call("cache_set", Flat(key), <<>>, TRUE, [thread |-> t]))
    /\ UNCHANGED <<node, now, license, visitors, nextId, pc, window, guards, threads, tables>>

\* invalidate: self._store.clear() when prefix is None, else
\* keys = [k for k in self._store.keys() if k.startswith(prefix)]
cache_invalidate_keys(t) ==
    LET prefix == callers.at[t].key IN
    /\ callers.at[t].pc = "inv_keys"
    /\ IF prefix = PrefixNone
       THEN /\ cache' = NoCache
            /\ callers' = [Leave(callers, t) EXCEPT !.gone = @ \cup DOMAIN cache]
            /\ Record(Call("cache_invalidate", "", <<>>, TRUE,
                           [thread |-> t, removed |-> DOMAIN cache]))
       ELSE /\ callers' = [callers EXCEPT
                               !.at[t].pc = "inv_del",
                               !.at[t].keys = {k \in DOMAIN cache : startswith(k, prefix)}]
            /\ UNCHANGED <<cache, last>>
    /\ UNCHANGED <<node, now, license, visitors, nextId, pc, window, guards, threads, tables>>

\* invalidate: for k in keys: del self._store[k], one pass of the loop or
\* its end.  del raises KeyError when the key is not in the dict, which
\* ends the call
cache_invalidate_del(t) ==
    LET at == callers.at[t] IN
    /\ callers.at[t].pc = "inv_del"
    /\ IF at.keys = {}
       THEN /\ callers' = [Leave(callers, t) EXCEPT !.gone = @ \cup at.removed]
            /\ Record(Call("cache_invalidate", Flat(at.key), <<>>, TRUE,
                           [thread |-> t, removed |-> at.removed]))
            /\ UNCHANGED cache
       ELSE \E k \in at.keys :
                IF k \in DOMAIN cache
                THEN /\ cache' = Evict(cache, {k})
                     /\ callers' = [callers EXCEPT !.at[t].keys = @ \ {k},
                                                   !.at[t].removed = @ \cup {k}]
                     /\ UNCHANGED last
                ELSE /\ callers' = [Leave(callers, t) EXCEPT
                                        !.error = TRUE, !.gone = @ \cup at.removed]
                     /\ Record(Call("cache_invalidate", Flat(at.key), <<>>, FALSE,
                                    [thread |-> t, removed |-> at.removed]))
                     /\ UNCHANGED cache
    /\ UNCHANGED <<node, now, license, visitors, nextId, pc, window, guards, threads, tables>>

\* the threads in the cache and the clock
NextLock ==
    \/ \E t \in CacheThreads : cache_call(t)
    \/ \E t \in CacheThreads : cache_enter(t)
    \/ \E t \in CacheThreads : cache_get_lookup(t)
    \/ \E t \in CacheThreads : cache_get_check(t)
    \/ \E t \in CacheThreads : cache_get_del(t)
    \/ \E t \in CacheThreads : cache_set_store(t)
    \/ \E t \in CacheThreads : cache_invalidate_keys(t)
    \/ \E t \in CacheThreads : cache_invalidate_del(t)
    \/ Tick

SpecLock == Init /\ [][NextLock]_vars

\* is_licensed() among the writes of the license and of the visitors and a
\* cached read
NextReadOnly ==
    \/ Tick
    \/ IsLicensed
    \/ Activate
    \/ Logout
    \/ AddVisitor
    \/ GetActiveVisitors

SpecReadOnly == Init /\ [][NextReadOnly]_vars

\* the license lifecycle
Next ==
    \/ Tick
    \/ Restart
    \/ Relocate
    \/ IsLicensed
    \/ Activate
    \/ Login
    \/ Logout
    \/ Revoke

Spec == Init /\ [][Next]_vars

\* the guard over the business data
NextGuard ==
    \/ Restart
    \/ Relocate
    \/ Activate
    \/ Login
    \/ Logout
    \/ Revoke
    \/ AddVisitor
    \/ CheckoutVisitor
    \/ GetActiveVisitors

SpecGuard == Init /\ [][NextGuard]_vars

\* user ids an administrator supplies
UserIds == {"admin"}

\* DatabaseManager.create_user: INSERT INTO users, False on the
\* IntegrityError of a user_id that is there already
create_user ==
    /\ \E u \in UserIds :
           /\ tables' = [tables EXCEPT !.users = @ \cup {u}]
           /\ Record(Call("create_user", u, <<>>, u \notin tables.users, {}))
    /\ UNCHANGED <<store, pc, window, guards, threads, callers>>

\* DatabaseManager.delete_user(user_id): DELETE FROM users WHERE user_id = ?
delete_user ==
    /\ \E u \in UserIds :
           /\ tables' = [tables EXCEPT !.users = @ \ {u}]
           /\ Record(Call("delete_user", u, <<>>, TRUE, {}))
    /\ UNCHANGED <<store, pc, window, guards, threads, callers>>

\* DatabaseManager.add_to_blacklist_from_visit(hp_no): False on an empty
\* hp_no, else INSERT OR REPLACE INTO blacklist
add_to_blacklist_from_visit ==
    /\ \E hp \in HpInputs \cup {<<>>} :
           /\ tables' = IF hp = <<>> THEN tables
                        ELSE [tables EXCEPT !.blacklist = @ \cup {hp}]
           /\ Record(Call("add_to_blacklist_from_visit", Flat(hp), <<>>, hp # <<>>, {}))
    /\ UNCHANGED <<store, pc, window, guards, threads, callers>>

\* DatabaseManager.remove_from_blacklist(hp_no): DELETE FROM blacklist
\* WHERE hp_no = ?
remove_from_blacklist ==
    /\ \E hp \in HpInputs :
           /\ tables' = [tables EXCEPT !.blacklist = @ \ {hp}]
           /\ Record(Call("remove_from_blacklist", Flat(hp), <<>>, TRUE, {}))
    /\ UNCHANGED <<store, pc, window, guards, threads, callers>>

\* the guard over all four tables and the cache
NextTables ==
    \/ Restart
    \/ Relocate
    \/ Activate
    \/ AddVisitor
    \/ GetActiveVisitors
    \/ create_user
    \/ delete_user
    \/ add_to_blacklist_from_visit
    \/ remove_from_blacklist

SpecTables == Init /\ [][NextTables]_vars

\* the data store stays on one machine
NextOneMachine ==
    \/ Restart
    \/ Activate
    \/ Login
    \/ Logout
    \/ AddVisitor
    \/ CheckoutVisitor

SpecOneMachine == Init /\ [][NextOneMachine]_vars

\* the guard on a store that can fail
NextFailingGuard ==
    \/ RestartOnFailingStore
    \/ RelocateOnFailingStore
    \/ Activate
    \/ Logout
    \/ AddVisitor
    \/ CheckoutVisitor

SpecFailingGuard == Init /\ [][NextFailingGuard]_vars

\* the cached reads and the writes that invalidate them
NextCache ==
    \/ Tick
    \/ Restart
    \/ Logout
    \/ AddVisitor
    \/ CheckoutVisitor
    \/ GetActiveVisitors
    \/ GetTodaysHistory
    \/ GetTodaysCheckinCount
    \/ GetAverageDuration

SpecCache == Init /\ [][NextCache]_vars

(***************************************************************************)
(* Properties                                                              *)
(***************************************************************************)
\* 10:00 on the day, in seconds since 2026-01-01 00:00:00
TenOClock(day) == day * 86400 + 36000

\* the day of an expiry text, -1 when it is no YYYY-MM-DD date
DayOf(e) == CASE e = <<"2026-01-01">> -> 0
              [] e = <<"2026-01-02">> -> 1
              [] OTHER -> -1

\* the license row holds a payload
HasPayload == LicenseRows # {} /\ get_license_info.license_key # NoPayload

\* the plaintext an activation put in the payload, its key and its expiry
StoredText == get_license_info.license_key.text
ActivatedKey == StoredText[1]
ActivatedExpiry == SubSeq(StoredText, 3, Len(StoredText))

\* the key of the current machine for expiry text e
KeyOfDevice(e) == generate_license_key(LicenseManager_get_device_mac(node), Flat(e))

\* the guard ran in the last call
GuardRan == last.op \in {"restart", "relocate"}

\* C1 as stated: whenever validate(k, e) holds for a date e, activate(k, e)
\* returns true and is_licensed() is true right after it
C1_ActivateThenLicensed ==
    (last.op = "activate" /\ last.key = KeyOfDevice(last.exp) /\ DayOf(last.exp) # -1)
        => (last.ret /\ is_licensed)

\* C1 amended: whenever validate(k, e) holds for a date e whose 10:00 cutover
\* has not passed, activate(k, e) returns true, is_licensed() is true right
\* after it, and is_licensed() is true after a restart on the same machine
\* that follows it
C1_ActivateThenLicensedUnexpired ==
    /\ (last.op = "activate" /\ last.key = KeyOfDevice(last.exp)
            /\ DayOf(last.exp) # -1 /\ now <= TenOClock(DayOf(last.exp)))
        => (last.ret /\ is_licensed)
    /\ (last.op = "restart" /\ last.val.fresh /\ HasPayload
            /\ DayOf(ActivatedExpiry) # -1 /\ now <= TenOClock(DayOf(ActivatedExpiry)))
        => is_licensed

C1_Witness ==
    /\ last.op = "restart" /\ last.val.fresh /\ HasPayload
    /\ DayOf(ActivatedExpiry) # -1 /\ now <= TenOClock(DayOf(ActivatedExpiry))
    /\ is_licensed

\* C2: a restart on the same machine deletes no row of visitors
C2_RestartKeepsVisitors ==
    last.op = "restart" => last.val.before \subseteq visitors

\* the backup areas of the data store: the schema has no table for them and
\* no statement writes one
BackupRows == {}

\* C3: after a guard run that found a mismatch, every row that was in
\* visitors before it is in visitors or in a backup area
C3_WipedRowsAreBackedUp ==
    (GuardRan /\ last.val.mismatch)
        => \A r \in last.val.before : r \in visitors \/ r \in BackupRows

\* C4: after a guard run that found a mismatch, visitors is empty and the
\* stored device_mac is the current machine's
C4_MismatchWipesAndRebinds ==
    (GuardRan /\ last.val.mismatch)
        => /\ visitors = {}
           /\ LicenseRows # {}
           /\ get_license_info.device_mac = get_device_mac(node)

C4_Witness ==
    /\ last.op = "relocate" /\ last.val.mismatch /\ last.val.before # {}
    /\ visitors = {}
    /\ get_license_info.device_mac = get_device_mac(node)

CachedReads == {"get_active_visitors", "get_todays_history",
                "get_todays_checkin_count", "get_average_duration"}

\* what the store holds for a cached read
StoreValue(op) == CASE op = "get_active_visitors" -> ActiveQuery
                    [] op = "get_todays_history" -> HistoryQuery
                    [] op = "get_todays_checkin_count" -> CountQuery
                    [] op = "get_average_duration" -> AvgQuery

\* C5: a cached read that follows a successful add_visitor or
\* checkout_visitor returns what the store holds
C5_ReadAfterWriteIsFresh ==
    [][\A op \in CachedReads :
          (last.op \in {"add_visitor", "checkout_visitor"} /\ last.ret
              /\ last'.op = op)
          => last'.val = StoreValue(op)']_vars

\* the stored payload decrypts on the current machine to the machine's key
\* for the stored expiry, a date
CorrectPayload ==
    /\ HasPayload
    /\ get_license_info.license_key.key = get_encryption_key(node)
    /\ DayOf(ActivatedExpiry) # -1
    /\ ActivatedKey = KeyOfDevice(ActivatedExpiry)

\* C6: after a logout is_licensed() is false; with the payload of an active
\* license whose cutover has not passed and is_active false, a login with
\* the activated key returns true and is_licensed() is true again
C6_LogoutThenLogin ==
    /\ [](last.op = "logout" => ~is_licensed)
    /\ [][(last'.op = "login" /\ CorrectPayload /\ ~get_license_info.is_active
              /\ now <= TenOClock(DayOf(ActivatedExpiry))
              /\ last'.key = ActivatedKey)
          => (last'.ret /\ is_licensed')]_vars

C6_Witness ==
    /\ last.op = "login" /\ last.val /\ HasPayload /\ last.key = ActivatedKey
    /\ last.ret /\ is_licensed

\* such a payload, and the license is active
ActiveCorrectPayload == CorrectPayload /\ get_license_info.is_active

\* C7: with such a payload is_licensed() returns true at or before 10:00 on
\* the expiry date and false after it
C7_CutoverAtTen ==
    (last.op = "is_licensed" /\ ActiveCorrectPayload)
        => (last.ret <=> now <= TenOClock(DayOf(ActivatedExpiry)))

C7_Witness ==
    /\ last.op = "is_licensed" /\ ActiveCorrectPayload
    /\ ~last.ret /\ now > TenOClock(DayOf(ActivatedExpiry))

\* the payload was written by an activation on another machine
ForeignPayload ==
    /\ HasPayload
    /\ \E d \in Nodes \ {node} :
           get_license_info.license_key = encrypt(d, StoredText)

\* C8: with a payload of another machine is_licensed() is false and
\* login(k) is false for every key k
C8_ForeignPayloadIsRejected ==
    ForeignPayload
        => /\ ~is_licensed
           /\ \A k \in KeyInputs : ~login_with_key(k)
           /\ last.op \in {"is_licensed", "login"} => ~last.ret

C8_Witness ==
    ForeignPayload /\ last.op = "login" /\ last.key = ActivatedKey /\ ~last.ret

\* C9: activate(k, e) returns true exactly when k is the key of the current
\* machine for e, and a failed activate leaves the license row as it was
C9_ActivateIffValid ==
    /\ [](last.op = "activate" => (last.ret <=> last.key = KeyOfDevice(last.exp)))
    /\ [][(last'.op = "activate" /\ ~last'.ret) => license' = license]_vars

C9_Witness ==
    last.op = "activate" /\ ~last.ret /\ HasPayload /\ get_license_info.is_active

\* the number of "|" in a text
PipeCount(t) == Cardinality({i \in 1..Len(t) : t[i] = "|"})

\* the cases in which login(k) has to fail: no row or no payload, a payload
\* of another machine, a token without exactly one "|", another key than the
\* stored one, a stored expiry whose cutover has passed
LoginMustFail(k) ==
    \/ ~HasPayload
    \/ get_license_info.license_key.key # get_encryption_key(node)
    \/ PipeCount(StoredText) # 1
    \/ k # ActivatedKey
    \/ DayOf(ActivatedExpiry) # -1 /\ now > TenOClock(DayOf(ActivatedExpiry))

\* C10: in each of these cases login(k) returns false and the license table
\* is what it was
C10_FailedLoginChangesNothing ==
    [][(last'.op = "login" /\ LoginMustFail(last'.key))
        => (~last'.ret /\ license' = license)]_vars

C10_Witness ==
    /\ last.op = "login" /\ ~last.ret /\ HasPayload
    /\ last.key = ActivatedKey
    /\ get_license_info.license_key.key = get_encryption_key(node)
    /\ DayOf(ActivatedExpiry) # -1 /\ now > TenOClock(DayOf(ActivatedExpiry))

\* the license row is the placeholder of the guard: no payload, not active
Placeholder ==
    /\ LicenseRows # {}
    /\ get_license_info.license_key = NoPayload
    /\ ~get_license_info.is_active

\* C11: right after revoke() there is no license row; while no payload is
\* stored is_licensed() is false and login(k) is false for every key k; a
\* guard run in that state leaves the empty inactive placeholder and nothing
\* more; the only step that ends the state is a successful activate
C11_RevokedUntilActivate ==
    /\ [](last.op = "revoke" => LicenseRows = {})
    /\ [](~HasPayload => (~is_licensed /\ \A k \in KeyInputs : ~login_with_key(k)))
    /\ []((~HasPayload /\ last.op \in {"is_licensed", "login"}) => ~last.ret)
    /\ []((~HasPayload /\ GuardRan) => Placeholder)
    /\ [][(~HasPayload /\ HasPayload') => (last'.op = "activate" /\ last'.ret)]_vars

C11_Witness ==
    /\ last.op = "revoke" /\ last.val /\ LicenseRows = {}
    /\ ~is_licensed /\ \A k \in KeyInputs : ~login_with_key(k)

\* C12 as stated: in every reachable state exactly one license row exists
C12_ExactlyOneLicenseRecord == Cardinality(LicenseRows) = 1

\* C12 amended: at most one license row exists, and it has id 1; one exists
\* after the first initialization, after every guard run and after every
\* successful activate; the only step that removes it is a revoke, and the
\* only steps that write it again are a guard run and a successful activate
C12_AtMostOneLicenseRecord ==
    /\ [](Cardinality(license) <= 1 /\ license = LicenseRows)
    /\ []((last.op = "init" \/ GuardRan \/ (last.op = "activate" /\ last.ret))
            => Cardinality(LicenseRows) = 1)
    /\ [][(LicenseRows # {} /\ LicenseRows' = {}) => last'.op = "revoke"]_vars
    /\ [][(LicenseRows = {} /\ LicenseRows' # {})
            => (GuardRan' \/ (last'.op = "activate" /\ last'.ret))]_vars

C12_Witness ==
    last.op = "activate" /\ last.ret /\ last.val /\ Cardinality(LicenseRows) = 1

\* C13: a guard run that finds a mismatch leaves the payload and is_active
\* of the license row as they were; of the stored data only device_mac and
\* the rows of visitors change
C13_MismatchKeepsPayloadAndFlag ==
    [][(GuardRan' /\ last'.val.mismatch)
        => /\ LicenseRows' # {}
           /\ get_license_info'.license_key = get_license_info.license_key
           /\ get_license_info'.is_active = get_license_info.is_active
           /\ license' = {[r EXCEPT !.device_mac = get_license_info'.device_mac] :
                             r \in license}
           /\ nextId' = nextId]_vars

C13_Witness ==
    /\ last.op = "relocate" /\ last.val.mismatch /\ last.val.before # {}
    /\ HasPayload /\ get_license_info.is_active
    /\ get_license_info.device_mac = get_device_mac(node)

\* C14: a logout from a state with a license row sets is_active to false
\* and leaves the payload and device_mac of the row, and the visitors, as
\* they were
C14_LogoutChangesOnlyActive ==
    [][(last'.op = "logout" /\ LicenseRows # {})
        => /\ LicenseRows' # {}
           /\ ~get_license_info'.is_active
           /\ get_license_info'.license_key = get_license_info.license_key
           /\ get_license_info'.device_mac = get_license_info.device_mac
           /\ license' = {[r EXCEPT !.is_active = FALSE] : r \in license}
           /\ visitors' = visitors /\ nextId' = nextId]_vars

C14_Witness ==
    /\ last.op = "logout" /\ last.val /\ HasPayload
    /\ ~get_license_info.is_active
    /\ get_license_info.device_mac = LicenseManager_get_device_mac(node)

\* the stored payload, empty when there is no license row
Payload == IF LicenseRows = {} THEN NoPayload ELSE get_license_info.license_key

\* C15: a step that changes the stored payload to a new non-empty value is a
\* successful activate
C15_OnlyActivateWritesPayload ==
    [][(Payload' # Payload /\ Payload' # NoPayload)
        => (last'.op = "activate" /\ last'.ret)]_vars

C15_Witness ==
    /\ last.op = "activate" /\ last.ret /\ ~last.val
    /\ Payload = encrypt(node, <<last.key, "|">> \o last.exp)
    /\ last.exp = <<"2026-01-02">>

\* C18: a guard run in which a statement failed leaves the tables license
\* and visitors as they were before it
C18_FailedGuardLeavesState ==
    [][(GuardRan' /\ last'.val.failed # {})
        => (license' = license /\ visitors' = visitors)]_vars

\* the license flow of this start has succeeded
LicenseFlowPassed == pc = "licensed" \/ (pc = "idle" /\ window = "shown")

\* C16: the main window is constructed or shown only after the license
\* flow of the start has succeeded
C16_LicensedBeforeWindow ==
    window \in {"constructed", "shown"} => LicenseFlowPassed

\* C17: with a failed read of the license row is_licensed() returns false,
\* login(k) returns false and writes nothing, and no step of
\* _ensure_license answers licensed; whenever the license flow of a start
\* has answered licensed, the stored license is one is_licensed() accepts
C17_FailClosed ==
    /\ []((last.op \in {"is_licensed", "login", "dialog_login", "_ensure_license"}
             /\ "select" \in last.val) => ~last.ret)
    /\ [][(last'.op \in {"login", "dialog_login"} /\ "select" \in last'.val)
            => license' = license]_vars
    /\ [](pc = "licensed" => is_licensed)

C17_Witness ==
    /\ last.op = "_ensure_license" /\ "select" \in last.val /\ ~last.ret
    /\ pc = "activate_dialog"
    /\ CorrectPayload /\ get_license_info.is_active /\ is_licensed

\* the keys of a store whose entries are as in the store before
SameEntries(keys) == \A k \in keys : k \in DOMAIN cache' /\ cache'[k] = cache[k]

\* C19: get(key) returns the value of the entry when the entry is at most
\* the TTL old and leaves the store as it is; it returns a miss when there
\* is no entry or the entry is older, and the entry is gone after it;
\* set(key, X) makes the entry X, created now; no other entry changes in a
\* get or a set, and no entry changes when the clock moves
C19_CacheTtl ==
    /\ [][last'.op = "get"
            => IF last'.exp \in DOMAIN cache
                  /\ now - cache[last'.exp].created <= CacheTtl
               THEN /\ last'.ret
                    /\ last'.val.value = cache[last'.exp].value
                    /\ cache' = cache
               ELSE /\ ~last'.ret
                    /\ DOMAIN cache' = (DOMAIN cache) \ {last'.exp}
                    /\ SameEntries(DOMAIN cache')]_vars
    /\ [][last'.op = "set"
            => /\ DOMAIN cache' = (DOMAIN cache) \cup {last'.exp}
               /\ cache'[last'.exp] = [created |-> now, value |-> last'.val]
               /\ SameEntries((DOMAIN cache) \ {last'.exp})]_vars
    /\ [][last'.op = "tick" => cache' = cache]_vars

C19_Witness ==
    /\ last.op = "get" /\ ~last.ret /\ last.val.evicted
    /\ last.exp \notin DOMAIN cache
    /\ now = 36001

\* text k starts with text p
Begins(k, p) == \E n \in 0..Len(k) : SubSeq(k, 1, n) = p

\* C20: invalidate(None) leaves the store empty; invalidate(prefix) removes
\* the keys that start with prefix and leaves every other entry as it was;
\* invalidate("active") removes "active:all" and "active:count" and keeps
\* "history:today"
C20_InvalidateByPrefix ==
    /\ [][last'.op = "invalidate"
            => IF last'.exp = <<>> THEN DOMAIN cache' = {}
               ELSE /\ DOMAIN cache' = {k \in DOMAIN cache : ~Begins(k, last'.exp[1])}
                    /\ SameEntries(DOMAIN cache')]_vars
    /\ []((last.op = "invalidate" /\ last.exp = <<PrefixActive>>)
            => /\ KeyActiveAll \notin DOMAIN cache
               /\ KeyActiveCount \notin DOMAIN cache
               /\ KeyHistoryToday \in last.val => KeyHistoryToday \in DOMAIN cache)

C20_Witness ==
    /\ last.op = "invalidate" /\ last.exp = <<PrefixActive>>
    /\ last.val = CacheKeys
    /\ DOMAIN cache = {KeyHistoryToday}

\* C21: the last get_active_visitors, when the writer was at rest from its
\* first step on and has taken no step since, returned the active visitors
\* of the store
C21_ReadAfterWriteSeesWrite ==
    (threads.reader.pc = "idle" /\ threads.reader.quiet)
        => threads.reader.result = ActiveQuery

\* C22: every licensing call made on a LicenseManager without a db_manager
\* returns to its caller
C22_LicensingCallsReturn ==
    last.op \in {"LicenseManager().is_licensed", "LicenseManager().activate_license",
                 "LicenseManager().login_with_key", "LicenseManager().revoke_license"}
        => last.val = "returned"

\* C23: a guard run that finds no license row leaves exactly the placeholder
\* row, bound to the device id of the machine it runs on, with an empty
\* payload and is_active false; the visitors and the id counter are as
\* before, and is_licensed() is false after it
C23_FirstRunCreatesPlaceholder ==
    [][(GuardRan' /\ last'.val.norow)
        => /\ LicenseRows = {}
           /\ Placeholder'
           /\ get_license_info'.device_mac = get_device_mac(node')
           /\ license' = LicenseRows'
           /\ visitors' = visitors
           /\ nextId' = nextId
           /\ ~is_licensed']_vars

C23_Witness ==
    /\ GuardRan /\ last.val.norow /\ last.val.before # {}
    /\ Placeholder
    /\ get_license_info.device_mac = get_device_mac(node)
    /\ visitors = last.val.before

\* the calls of a session that read or write table visitors
BusinessCalls == {"init_ui", "search_existing", "register_visitor", "checkout_visitor"}

\* C24: the guard runs at most once in a process; every call that reads or
\* writes the visitors is made after the one guard run of its process has
\* returned, and so is every state in which the main window exists
C24_GuardOnceBeforeData ==
    /\ [](guards <= 1)
    /\ [][last'.op \in BusinessCalls => (guards = 1 /\ guards' = 1)]_vars
    /\ [](window \in {"constructed", "shown", "hidden"} => guards = 1)

C24_Witness ==
    /\ last.op = "register_visitor" /\ last.ret
    /\ window = "shown" /\ guards = 1
    /\ visitors # {}

\* uppercase hexadecimal characters
UpperHex == Digits \cup {"A", "B", "C", "D", "E", "F"}

\* text is four groups of four uppercase hex characters joined by dashes
DashGrouped(text) ==
    /\ Len(text) = 19
    /\ \A i \in 1..19 : IF i \in {5, 10, 15} THEN text[i] = "-"
                                              ELSE text[i] \in UpperHex

\* C25: generate_license_key returns, in every state it is called in, the
\* one text its two arguments determine, and that text has 19 characters:
\* four groups of four uppercase hex characters with dashes between them
C25_KeyIsPureAndDashGrouped ==
    last.op = "generate_license_key"
        => /\ last.ret = generate_license_key_text(last.key, Flat(last.exp))
           /\ DashGrouped(last.ret)

C25_Witness ==
    /\ last.op = "generate_license_key"
    /\ last.key = "AA:BB:CC:DD:EE:FF" /\ last.exp = <<"2026-01-01">>
    /\ Len(last.ret) = 19
    /\ now # 35995

\* C26: no HP number has two visits with check_out_time unset
C26_OneActiveVisitPerHp ==
    \A r1, r2 \in visitors :
        (r1.hp_no = r2.hp_no /\ r1.check_out_time = NULL /\ r2.check_out_time = NULL)
            => r1.id = r2.id

\* C27: a checkout_visitor(id) that returned true has stored check_out_time
\* and duration in row id, which is then no active visitor; one whose
\* UPDATE failed returned false
C27_CheckoutTrueMeansStored ==
    last.op = "checkout_visitor"
        => /\ last.ret => \A r \in visitors :
                              r.id = last.val.id
                                  => (r.check_out_time # NULL /\ r.duration # NULL)
           /\ last.ret => \A a \in ActiveQuery : a.id # last.val.id
           /\ "update" \in last.val.faults => ~last.ret

\* C28: a confirmed Log Out leads to the user login dialog; the Log Out and
\* the user login after it leave the license row and the visitors as they
\* were, so a license that is_licensed() accepted before the Log Out is
\* accepted after it; a following start of the program whose guard
\* statements succeed keeps the payload and is_active of the row, and
\* is_licensed() answers after it as before
C28_UserLogoutKeepsLicense ==
    /\ [][last'.op \in {"_logout", "_ensure_user_login"}
            => (license' = license /\ visitors' = visitors)]_vars
    /\ []((last.op = "_logout" /\ last.ret) => pc = "user_login")
    /\ []((last.op = "_logout" /\ last.val) => is_licensed)
    /\ [][(last'.op = "MainWindow" /\ last'.val.failed = {} /\ LicenseRows # {})
            => /\ LicenseRows' # {}
               /\ get_license_info'.license_key = get_license_info.license_key
               /\ get_license_info'.is_active = get_license_info.is_active
               /\ is_licensed' = is_licensed]_vars

C28_Witness ==
    /\ last.op = "_logout" /\ last.ret /\ last.val
    /\ pc = "user_login" /\ window = "hidden"
    /\ HasPayload /\ get_license_info.is_active /\ is_licensed

\* the stored payload holds an expiry date whose 10:00 cutover has passed
PastCutover ==
    /\ HasPayload
    /\ DayOf(ActivatedExpiry) # -1
    /\ now > TenOClock(DayOf(ActivatedExpiry))

\* C29: while the cutover of the stored expiry date has passed is_licensed()
\* is false; a step from such a state to one where is_licensed() is true is
\* a successful activate with a later expiry date; and the state ends only
\* by a successful activate or by a revoke, which leaves no payload
C29_ExpiredUntilActivate ==
    /\ [](PastCutover => ~is_licensed)
    /\ [][(PastCutover /\ is_licensed')
            => /\ last'.op = "activate" /\ last'.ret
               /\ DayOf(last'.exp) > DayOf(ActivatedExpiry)]_vars
    /\ [][(PastCutover /\ ~PastCutover')
            => \/ last'.op = "activate" /\ last'.ret
               \/ last'.op = "revoke" /\ LicenseRows' = {}]_vars
    /\ [][now' >= now]_vars

C29_Witness ==
    /\ last.op = "restart"
    /\ PastCutover /\ ActiveCorrectPayload
    /\ ~is_licensed
    /\ \A k \in KeyInputs : ~login_with_key(k)

\* C30: in the state a login(k) that returned true leaves, is_licensed()
\* is true
C30_LoginThenLicensed ==
    (last.op = "login" /\ last.ret) => is_licensed

C30_Witness ==
    /\ last.op = "login" /\ last.ret
    /\ get_license_info.is_active /\ is_licensed
    /\ now = TenOClock(DayOf(ActivatedExpiry))

\* C31: is_licensed() is true only with a license row that is active and
\* whose payload is the one an activate on the current machine writes, the
\* machine's key for the stored expiry date, whose 10:00 cutover has not
\* passed; a payload that makes it true was stored by an activate that
\* returned true; and a step that changes nothing but the device_mac of the
\* row leaves the answer of is_licensed() as it was
C31_LicensedOnlyWithOwnActivePayload ==
    /\ [](is_licensed
            => /\ ActiveCorrectPayload
               /\ Payload = encrypt(node, <<KeyOfDevice(ActivatedExpiry), "|">>
                                              \o ActivatedExpiry)
               /\ now <= TenOClock(DayOf(ActivatedExpiry)))
    /\ [][(Payload' # Payload /\ is_licensed')
            => (last'.op = "activate" /\ last'.ret /\ last'.key = KeyOfDevice(last'.exp))]_vars
    /\ [][(LicenseRows # {} /\ LicenseRows' # {}
              /\ get_license_info'.license_key = get_license_info.license_key
              /\ get_license_info'.is_active = get_license_info.is_active
              /\ node' = node /\ now' = now)
            => is_licensed' = is_licensed]_vars

C31_Witness ==
    /\ last.op = "restart" /\ last.val.mismatch
    /\ is_licensed
    /\ get_license_info.device_mac = get_device_mac(node)
    /\ get_license_info.device_mac # LicenseManager_get_device_mac(node)

\* C32: every step in which _ensure_license answers true, or in which the
\* login dialog is accepted (after which _ensure_license returns true),
\* ends in a state where is_licensed() is true, and so does a startup flow
\* that returned true.  The clock is held from the start of the flow to its
\* return
C32_EnsureLicenseTrueMeansLicensed ==
    /\ [][(last'.op \in {"_ensure_license", "dialog_login"} /\ last'.ret)
            => (pc' = "licensed" /\ is_licensed')]_vars
    /\ []((last.op = "run_startup_flow" /\ last.ret) => is_licensed)

\* the login path
C32_Witness ==
    /\ last.op = "dialog_login" /\ last.ret
    /\ pc = "licensed" /\ window = "shown"
    /\ is_licensed

\* C33: a guard run on the machine of the guard run directly before it
\* leaves the license table and the visitors as that run left them
C33_GuardIsIdempotent ==
    [][(GuardRan /\ last'.op = "restart")
        => (license' = license /\ visitors' = visitors /\ nextId' = nextId)]_vars

C33_Witness ==
    /\ last.op = "restart" /\ last.val.again
    /\ ~last.val.mismatch /\ ~last.val.norow
    /\ HasPayload
    /\ get_license_info.device_mac = get_device_mac(node)

\* C34: a call of is_licensed() leaves the license table, the visitors and
\* the cache as they were, whether it returns true or false
C34_IsLicensedIsReadOnly ==
    [][last'.op = "is_licensed"
        => (license' = license /\ visitors' = visitors /\ nextId' = nextId
              /\ cache' = cache)]_vars

\* a refusing call with a license, a visitor and a cache entry in place
C34_Witness ==
    /\ last.op = "is_licensed" /\ ~last.ret
    /\ ActiveCorrectPayload /\ now > TenOClock(DayOf(ActivatedExpiry))
    /\ visitors # {}
    /\ KeyActiveAll \in DOMAIN cache


\* what a guard run that found another machine's device_mac recorded
MismatchRun(call) == call.op \in {"restart", "relocate"} /\ call.val.mismatch

\* C35: a guard run on a fingerprint mismatch empties the table visitors and
\* the whole cache, leaves the tables users and blacklist and the license
\* key and activation flag as they were, and the cached read that follows it
\* misses the cache and returns what the store holds
C35_MismatchClearsVisitorsAndCacheOnly ==
    /\ [][MismatchRun(last') => /\ visitors' = {}
                                /\ cache' = NoCache
                                /\ tables' = tables
                                /\ get_license_info'.license_key = get_license_info.license_key
                                /\ get_license_info'.is_active = get_license_info.is_active]_vars
    /\ [][(MismatchRun(last) /\ last'.op \in CachedReads)
              => \E op \in CachedReads : /\ last'.op = op /\ ~last'.ret
                                        /\ last'.val = StoreValue(op)']_vars

\* a mismatch run on a store with users, a blacklist, visitors and a cached
\* read
C35_Witness ==
    /\ MismatchRun(last)
    /\ last.val.before # {} /\ last.val.cached
    /\ tables.users # {} /\ tables.blacklist # {}
    /\ visitors = {} /\ cache = NoCache

\* thread t is inside a with self._lock body
InBody(t) == callers.at[t].pc \in {"get_lookup", "get_check", "get_del",
                                   "set_store", "inv_keys", "inv_del"}

\* C36: get, set and invalidate are mutually exclusive: no two threads are
\* inside a locked body at once and the thread inside holds the lock, no
\* del finds its key gone (no KeyError), and a get that returns a value did
\* not begin after a completed invalidate had removed the entry of its key
\* unless a set has stored the key since
C36_CacheOperationsAreExclusive ==
    /\ [](\A t, u \in CacheThreads : (InBody(t) /\ InBody(u)) => t = u)
    /\ [](\A t \in CacheThreads : InBody(t) => callers.lock = t)
    /\ [](~callers.error)
    /\ []((last.op = "cache_get" /\ last.ret) => ~last.val.stale)

\* a get has evicted an expired entry while an invalidate that covers its
\* key waits for the lock
C36_Witness ==
    /\ last.op = "cache_get" /\ last.val.why = "evicted"
    /\ \E u \in CacheThreads :
           /\ u # last.val.thread
           /\ callers.at[u].pc = "invalidate"
           /\ \E k \in CallerKeys : Flat(k) = last.key /\ Covers(callers.at[u].key, k)

====
